---- MODULE Spec2Model ----
(***************************************************************************)
(* Booking app: the anchor-based booking validator                         *)
(* (services/bookingValidator.js), the distance oracle                     *)
(* (services/mapsService.js), the two booking stores (database.js, the     *)
(* sqlite store the router requires, and database.pg.js, the Postgres      *)
(* store the validator requires) and the HTTP router (api/index.js).       *)
(*                                                                         *)
(* Units: distances are tenths of a mile (Math.round(x * 10) / 10 keeps    *)
(* one decimal), durations are minutes, a calendar date 'YYYY-MM-DD' is    *)
(* its day number since 1970-01-01, a JS Date is its instant in hours      *)
(* since 1970-01-01T00:00Z, a time 'HH:MM' is the record [h, m].           *)
(* The host's UTC offset is constant during a run (no DST change).         *)
(***************************************************************************)
EXTENDS Integers, Sequences, FiniteSets, TLC

VARIABLES
    workingDays,   \* config.WORKING_DAYS, read-only configuration
    tzOffset,      \* the host's local-time offset from UTC, in hours
    pgBookings,    \* rows of the Postgres bookings table (database.pg.js)
    bookings,      \* rows of the sqlite bookings table (database.js)
    nextId,        \* sqlite AUTOINCREMENT of the bookings table
    inflight,      \* POST /bookings requests between their validation and their insert
    geocodeCache,  \* MapsService.geocodeCache, the Map of lookups that succeeded
    cancelled,     \* rows of the sqlite cancelled_bookings table
    completed,     \* rows of the sqlite completed_bookings table
    pgCancelled,   \* rows of the Postgres cancelled_bookings table
    pgCompleted,   \* rows of the Postgres completed_bookings table
    last           \* the request last handled and what was answered

\* The tables bookings are moved to when they are cancelled or completed.
archives == <<cancelled, completed, pgCancelled, pgCompleted>>

vars == <<workingDays, tzOffset, pgBookings, bookings, nextId, inflight,
          geocodeCache, cancelled, completed, pgCancelled, pgCompleted, last>>

-----------------------------------------------------------------------------
(* Configuration: config.js                                                *)

MAX_SERVICE_RADIUS_MILES == 70
MAX_DISTANCE_FROM_ANCHOR_MILES == 15
MAX_TRAVEL_TIME_FROM_ANCHOR_MINUTES == 30
MAX_BOOKINGS_PER_DAY == 3
MAX_DAYS_TO_SUGGEST == 14
WORK_START_HOUR == 0
WORK_END_HOUR == 24

T(h, m) == [h |-> h, m |-> m]

DEFAULT_TIME_SLOTS == <<T(8, 0), T(11, 30), T(15, 0)>>

\* config.WORKING_DAYS as shipped: every weekday, 0 = Sunday .. 6 = Saturday.
ShippedWorkingDays == 0..6

\* The validator's own message for a non-working day is 'We do not operate on
\* weekends': the Monday-to-Friday configuration the code is written for.
WeekdaysOnly == 1..5

WorkingDayConfigs == {ShippedWorkingDays, WeekdaysOnly}

\* Hosts: US Eastern (the business's own zone), UTC (the serverless host),
\* Central Europe.
TzOffsets == {-5, 0, 1}

-----------------------------------------------------------------------------
(* Bounds of the model                                                     *)

\* Addresses a request may name, each with its position: the straight-line
\* distance from the base in tenths of a mile, all on one road through the
\* base, so the straight-line distance of two addresses is the difference.
\*   A   44.0 mi from the base (55.0 mi driving)
\*   B   56.0 mi from the base (70.0 mi driving: exactly the service radius)
\*       and 12.0 mi from A (15.0 mi driving, 26 min: exactly the anchor limit)
\*   C   31.0 mi from the base, 13.0 mi from A (16.3 mi driving, 28 min)
\*   Far 60.0 mi from the base (75.0 mi driving: outside the radius)
Addresses == {"A", "B", "C", "Far"}

Position(addr) ==
    CASE addr = "A" -> 440
      [] addr = "B" -> 560
      [] addr = "C" -> 310
      [] addr = "Far" -> 600

BasePosition == 0

\* Dates a request may name: 1970-01-09 (a Friday) and 1970-01-10 (a Saturday).
ReqDates == {8, 9}

\* An optional value (a request field that may be missing, a nullable column,
\* a field a verdict may lack): <<>> when there is none, <<v>> when it is v.
None == <<>>
Some(v) == <<v>>

Range(seq) == {seq[i] : i \in 1..Len(seq)}

\* The day number standing for a booking_date string that does not parse:
\* new Date of it is an Invalid Date, whose time value is NaN.
InvalidDate == -1

ReqTimes == {T(8, 0), T(11, 30)}

\* The external call of a request that fails (a network or database error).
FailPoints == {"none", "geocode", "lowell", "store", "anchor", "altStore"}

-----------------------------------------------------------------------------
(* Dates: new Date(...), getDay, setDate, toISOString                      *)

\* new Date('YYYY-MM-DD'): a date-only string is UTC midnight.
DateFromISO(day) == day * 24

\* new Date('YYYY-MM-DDT00:00:00'): a date-time string without zone is local time.
DateFromLocal(day) == day * 24 - tzOffset

\* The local calendar day of an instant.
LocalDay(instant) == (instant + tzOffset) \div 24

\* Date.prototype.getDay(): the weekday of the local day; 1970-01-01 was a Thursday.
getDay(instant) == (LocalDay(instant) + 4) % 7

\* date.setDate(date.getDate() + n): n local days later, same local time of day.
AddDays(instant, n) == instant + 24 * n

\* dateObj.toISOString().split('T')[0]: the UTC calendar day.
formatDate(instant) == instant \div 24

-----------------------------------------------------------------------------
(* Distance oracle: services/mapsService.js                                *)

Abs(x) == IF x < 0 THEN 0 - x ELSE x

\* The distance taken with the sign of the difference.
calculateStraightLineDistance_Signed(p1, p2) == p1 - p2

\* calculateStraightLineDistance: the haversine distance rounded to one decimal;
\* on the model's road it is the difference of the positions.
calculateStraightLineDistance(p1, p2) == Abs(p1 - p2)

\* getDistanceAndTime: drivingDistance = distance * 1.25;
\* duration = Math.ceil(drivingDistance / 35 * 60) = ceil(3 * tenths / 14);
\* distance = Math.round(drivingDistance * 10) / 10, halves rounded up.
getDistanceAndTime(origin, destination) ==
    LET straight == calculateStraightLineDistance(origin, destination)
    IN  [distance |-> (5 * straight + 2) \div 4,
         duration |-> (3 * straight + 13) \div 14]

\* The keys of geocodeCache: the string geocodeAddress is called with, an
\* address of a request or the 'lat,lng' string getDistanceAndTime builds
\* from the coordinates of a location.
AddressKey(address) == [kind |-> "address", name |-> address, at |-> 0]
CoordsKey(pos) == [kind |-> "coords", name |-> "", at |-> pos]

\* What the geocoding source answers for a key when it answers: the position
\* of the address; for a coordinate string, the place at those coordinates.
SourceLocation(key) == IF key.kind = "address" THEN Position(key.name) ELSE key.at

\* geocodeCache.has(key)
CacheHas(cache, key) == \E e \in cache : e.key = key

\* A get that answers every key with the location of the base.
CacheGet_Base(cache, key) == Some(BasePosition)

\* geocodeCache.get(key)
CacheGet(cache, key) == (CHOOSE e \in cache : e.key = key).location

\* A geocodeAddress that also remembers a lookup that failed and answers the
\* same failure from then on.
geocodeAddress_CachesFailures(cache, key, sourceFails) ==
    IF CacheHas(cache, key)
    THEN [threw |-> CacheGet(cache, key) = None, location |-> CacheGet(cache, key),
          cache |-> cache]
    ELSE IF sourceFails
    THEN [threw |-> TRUE, location |-> None,
          cache |-> cache \cup {[key |-> key, location |-> None]}]
    ELSE [threw |-> FALSE, location |-> Some(SourceLocation(key)),
          cache |-> cache \cup {[key |-> key, location |-> Some(SourceLocation(key))]}]

\* geocodeAddress(address): the cached location when the key is cached;
\* otherwise the lookup, which throws when the source fails or finds nothing
\* and caches the location when it succeeds. cache is the Map afterwards.
geocodeAddress(cache, key, sourceFails) ==
    IF CacheHas(cache, key)
    THEN [threw |-> FALSE, location |-> CacheGet(cache, key), cache |-> cache]
    ELSE IF sourceFails
    THEN [threw |-> TRUE, location |-> None, cache |-> cache]
    ELSE [threw |-> FALSE, location |-> Some(SourceLocation(key)),
          cache |-> cache \cup {[key |-> key, location |-> Some(SourceLocation(key))]}]

\* The Map of a process that has looked nothing up yet, and of one that has
\* looked up every address and location of the model.
ColdCache == {}
WarmCache ==
    {[key |-> AddressKey(a), location |-> Some(Position(a))] : a \in Addresses}
    \cup {[key |-> CoordsKey(p), location |-> Some(p)] :
              p \in {BasePosition} \cup {Position(a) : a \in Addresses}}

-----------------------------------------------------------------------------
(* Booking stores: SELECT * FROM bookings WHERE booking_date = ? ORDER BY   *)
(* booking_time, the same statement in database.js and database.pg.js      *)

\* booking_time is TEXT 'HH:MM': for zero-padded times the text order is the
\* order of the minutes.
TimeKey(t) == t.h * 60 + t.m

RECURSIVE InsertByTime(_, _)
InsertByTime(row, sorted) ==
    IF sorted = <<>> THEN <<row>>
    ELSE IF TimeKey(row.booking_time) < TimeKey(Head(sorted).booking_time)
         THEN <<row>> \o sorted
         ELSE <<Head(sorted)>> \o InsertByTime(row, Tail(sorted))

RECURSIVE SortByTime(_)
SortByTime(rows) ==
    IF rows = <<>> THEN <<>>
    ELSE InsertByTime(rows[Len(rows)], SortByTime(SubSeq(rows, 1, Len(rows) - 1)))

\* Rows of equal booking_time come in insertion order.
getBookingsByDate(store, day) ==
    SortByTime(SelectSeq(store, LAMBDA r : r.booking_date = day))

\* existingBookings.find(b => b.is_anchor): the first flagged row, if any.
FindAnchor(rows) ==
    LET flagged == SelectSeq(rows, LAMBDA r : r.is_anchor)
    IN  IF flagged = <<>> THEN None ELSE Some(Head(flagged))

-----------------------------------------------------------------------------
(* Booking validator: services/bookingValidator.js                         *)

\* isWorkingDay(dateInput) for a Date: config.WORKING_DAYS when it is a
\* non-empty array, every weekday otherwise; the weekday is the local one.
isWorkingDay(instant) ==
    LET days == IF workingDays # {} THEN workingDays ELSE 0..6
    IN  getDay(instant) \in days

\* isWorkingDay(dateInput) for a date string: new Date(`${dateInput}T00:00:00`);
\* getDay() of an Invalid Date is NaN, which no configuration includes.
isWorkingDayString(day) ==
    day # InvalidDate /\ isWorkingDay(DateFromLocal(day))

\* The while loop of shiftToWorkingDay: at most 14 advances.
RECURSIVE ShiftLoop(_, _)
ShiftLoop(instant, safety) ==
    IF ~isWorkingDay(instant) /\ safety < 14
    THEN ShiftLoop(AddDays(instant, 1), safety + 1)
    ELSE instant

shiftToWorkingDay(instant, includeToday) ==
    ShiftLoop(IF includeToday THEN instant ELSE AddDays(instant, 1), 0)

\* The radius check without the limit.
checkDistanceFromLowell_NoLimit(pos) ==
    LET result == getDistanceAndTime(BasePosition, pos)
    IN  [valid |-> TRUE, distance |-> result.distance, travelTime |-> result.duration]

checkDistanceFromLowell(pos) ==
    LET result == getDistanceAndTime(BasePosition, pos)
    IN  [valid |-> result.distance <= MAX_SERVICE_RADIUS_MILES * 10,
         distance |-> result.distance,
         travelTime |-> result.duration]

\* The proximity check with either limit sufficing.
checkDistanceFromAnchor_Either(pos, anchorPos) ==
    LET result == getDistanceAndTime(anchorPos, pos)
        validDistance == result.distance <= MAX_DISTANCE_FROM_ANCHOR_MILES * 10
        validTime == result.duration <= MAX_TRAVEL_TIME_FROM_ANCHOR_MINUTES
    IN  [valid |-> validDistance \/ validTime,
         distance |-> result.distance,
         travelTime |-> result.duration]

checkDistanceFromAnchor(pos, anchorPos) ==
    LET result == getDistanceAndTime(anchorPos, pos)
        validDistance == result.distance <= MAX_DISTANCE_FROM_ANCHOR_MILES * 10
        validTime == result.duration <= MAX_TRAVEL_TIME_FROM_ANCHOR_MINUTES
    IN  [valid |-> validDistance /\ validTime,
         distance |-> result.distance,
         travelTime |-> result.duration]

\* const minGapMinutes = 240 (checkTimeAvailability), const minGap = 240
\* (findAvailableTimeSlots).
MinGapMinutes == 240

\* The sentinel 'No available slots' among the 'HH:00' strings.
NoAvailableSlots == [h |-> 0 - 1, m |-> 0 - 1]

\* The loop over the gaps between consecutive booked times, from index i.
RECURSIVE GapSlots(_, _)
GapSlots(bookedTimes, i) ==
    IF i > Len(bookedTimes) - 1 THEN <<>>
    ELSE LET gapStart == bookedTimes[i] + MinGapMinutes
             gapEnd == bookedTimes[i + 1]
         IN  (IF gapEnd - gapStart >= MinGapMinutes
              THEN <<T((gapStart + gapEnd) \div 120, 0)>>
              ELSE <<>>) \o GapSlots(bookedTimes, i + 1)

findAvailableTimeSlots(existingBookings) ==
    LET workStart == WORK_START_HOUR * 60
        workEnd == WORK_END_HOUR * 60
        \* existingBookings is already in booking_time order
        bookedTimes == [i \in 1..Len(existingBookings) |->
                           TimeKey(existingBookings[i].booking_time)]
        n == Len(bookedTimes)
        before == IF n > 0 /\ bookedTimes[1] - workStart >= MinGapMinutes
                  THEN <<T((workStart + bookedTimes[1] - MinGapMinutes) \div 60, 0)>>
                  ELSE <<>>
        after == IF n > 0 /\ workEnd - bookedTimes[n] >= MinGapMinutes
                    /\ (bookedTimes[n] + MinGapMinutes) \div 60 < WORK_END_HOUR
                 THEN <<T((bookedTimes[n] + MinGapMinutes) \div 60, 0)>>
                 ELSE <<>>
        availableSlots == before \o GapSlots(bookedTimes, 1) \o after
    IN  IF Len(availableSlots) > 0 THEN availableSlots ELSE <<NoAvailableSlots>>

\* The time check measuring the gap around the clock, across midnight.
checkTimeAvailability_Wraparound(existingBookings, requestedTime) ==
    IF requestedTime = None \/ Len(existingBookings) = 0
    THEN [valid |-> TRUE, suggestedTimes |-> <<>>]
    ELSE LET requestedMinutes == TimeKey(requestedTime[1])
             Around(d) == IF d > 720 THEN 1440 - d ELSE d
             conflicts == SelectSeq(existingBookings, LAMBDA b :
                 Around(Abs(requestedMinutes - TimeKey(b.booking_time))) < MinGapMinutes)
         IN  IF Len(conflicts) > 0
             THEN [valid |-> FALSE,
                   suggestedTimes |-> findAvailableTimeSlots(existingBookings)]
             ELSE [valid |-> TRUE, suggestedTimes |-> <<>>]

checkTimeAvailability(existingBookings, requestedTime) ==
    IF requestedTime = None \/ Len(existingBookings) = 0
    THEN [valid |-> TRUE, suggestedTimes |-> <<>>]
    ELSE LET requestedMinutes == TimeKey(requestedTime[1])
             conflicts == SelectSeq(existingBookings, LAMBDA b :
                 Abs(requestedMinutes - TimeKey(b.booking_time)) < MinGapMinutes)
         IN  IF Len(conflicts) > 0
             THEN [valid |-> FALSE,
                   suggestedTimes |-> findAvailableTimeSlots(existingBookings)]
             ELSE [valid |-> TRUE, suggestedTimes |-> <<>>]

\* What a scan of suggestAlternateDate found, and the dates whose bookings it read.
AltFound(day, why) == [outcome |-> "found", date |-> day, reason |-> why, reads |-> <<day>>]
AltNone == [outcome |-> "none", date |-> 0, reason |-> "", reads |-> <<>>]
AltThrew == [outcome |-> "threw", date |-> 0, reason |-> "", reads |-> <<>>]
AfterRead(day, r) == [r EXCEPT !.reads = <<day>> \o @]

\* The first loop taking any day below capacity that has a flagged anchor,
\* without the distance check.
RECURSIVE AltPass1_NoFit(_, _, _, _, _)
AltPass1_NoFit(i, currentDate, pos, store, readFails) ==
    IF i > MAX_DAYS_TO_SUGGEST THEN AltNone
    ELSE LET checkDate == AddDays(currentDate, i)
             dateString == formatDate(checkDate)
         IN  IF ~isWorkingDay(checkDate)
             THEN AltPass1_NoFit(i + 1, currentDate, pos, store, readFails)
             ELSE IF readFails THEN AltThrew
             ELSE LET rows == getBookingsByDate(store, dateString)
                  IN  IF Len(rows) = 0
                      THEN AltFound(dateString, "Day is available (no bookings yet)")
                      ELSE IF Len(rows) < MAX_BOOKINGS_PER_DAY /\ FindAnchor(rows) # None
                      THEN AltFound(dateString, "Good fit with existing route")
                      ELSE AfterRead(dateString,
                               AltPass1_NoFit(i + 1, currentDate, pos, store, readFails))

\* First loop of suggestAlternateDate, from offset i: an empty day, or a day
\* below capacity whose flagged anchor the location fits.
RECURSIVE AltPass1(_, _, _, _, _)
AltPass1(i, currentDate, pos, store, readFails) ==
    IF i > MAX_DAYS_TO_SUGGEST THEN AltNone
    ELSE LET checkDate == AddDays(currentDate, i)
             dateString == formatDate(checkDate)
         IN  IF ~isWorkingDay(checkDate)
             THEN AltPass1(i + 1, currentDate, pos, store, readFails)
             ELSE IF readFails THEN AltThrew
             ELSE LET rows == getBookingsByDate(store, dateString)
                      anchorBooking == FindAnchor(rows)
                  IN  IF Len(rows) = 0
                      THEN AltFound(dateString, "Day is available (no bookings yet)")
                      ELSE IF /\ Len(rows) < MAX_BOOKINGS_PER_DAY
                              /\ anchorBooking # None
                              /\ checkDistanceFromAnchor(pos, anchorBooking[1].pos).valid
                      THEN AltFound(dateString, "Good fit with existing route")
                      ELSE AfterRead(dateString,
                               AltPass1(i + 1, currentDate, pos, store, readFails))

\* Second loop of suggestAlternateDate, from offset i: the first day below capacity.
RECURSIVE AltPass2(_, _, _)
AltPass2(i, currentDate, store) ==
    IF i > MAX_DAYS_TO_SUGGEST THEN AltNone
    ELSE LET checkDate == AddDays(currentDate, i)
             dateString == formatDate(checkDate)
         IN  IF ~isWorkingDay(checkDate)
             THEN AltPass2(i + 1, currentDate, store)
             ELSE IF Len(getBookingsByDate(store, dateString)) < MAX_BOOKINGS_PER_DAY
                  THEN AltFound(dateString, "Day has availability")
                  ELSE AfterRead(dateString, AltPass2(i + 1, currentDate, store))

\* suggestAlternateDate going on to its second loop after a store read of the
\* first loop threw.
suggestAlternateDate_SecondLoopAfterThrow(requestedDate, pos, store, readFails) ==
    LET currentDate == DateFromISO(requestedDate)
        p1 == AltPass1(1, currentDate, pos, store, readFails)
        p2 == AltPass2(1, currentDate, store)
    IN  IF p1.outcome = "found"
        THEN [value |-> Some([date |-> p1.date, reason |-> p1.reason]), reads |-> p1.reads]
        ELSE IF p2.outcome = "found"
        THEN [value |-> Some([date |-> p2.date, reason |-> p2.reason]),
              reads |-> p1.reads \o p2.reads]
        ELSE [value |-> None, reads |-> p1.reads \o p2.reads]

\* suggestAlternateDate(requestedDate, lat, lng): {date, reason} or null, null
\* also when anything inside throws (its own try/catch); readFails: the first
\* store read of the search throws. new Date(requestedDate) is UTC midnight.
suggestAlternateDate(requestedDate, pos, store, readFails) ==
    LET currentDate == DateFromISO(requestedDate)
        p1 == AltPass1(1, currentDate, pos, store, readFails)
        p2 == AltPass2(1, currentDate, store)
    IN  IF p1.outcome = "found"
        THEN [value |-> Some([date |-> p1.date, reason |-> p1.reason]), reads |-> p1.reads]
        ELSE IF p1.outcome = "threw"
        THEN [value |-> None, reads |-> p1.reads]
        ELSE IF p2.outcome = "found"
        THEN [value |-> Some([date |-> p2.date, reason |-> p2.reason]),
              reads |-> p1.reads \o p2.reads]
        ELSE [value |-> None, reads |-> p1.reads \o p2.reads]

\* A verdict of validateBooking: `fields` are the keys of the returned object,
\* `calls` the collaborator calls the run made, in order, `altReads` the dates
\* whose bookings suggestAlternateDate read; threw: no object was returned,
\* the promise rejected.
Verdict0 ==
    [threw |-> FALSE, valid |-> FALSE, reason |-> "", fields |-> {},
     isAnchor |-> FALSE, alternateDate |-> None, nextWorkingDate |-> None,
     geocode |-> None, distanceFromLowell |-> None, travelTimeFromLowell |-> None,
     distanceFromAnchor |-> None, travelTimeFromAnchor |-> None,
     details |-> None, suggestedTimes |-> <<>>, calls |-> <<>>, altReads |-> <<>>]

Threw == [Verdict0 EXCEPT !.threw = TRUE]

Reject(why, made) ==
    [Verdict0 EXCEPT !.reason = why, !.calls = made,
                     !.fields = {"valid", "reason", "message"}]

\* A rejection that drops the search for another date.
RejectWithAlternate_Dropped(why, made, alt) == Reject(why, made)

RejectWithAlternate(why, made, alt) ==
    [Reject(why, made \o <<"suggestAlternateDate">>) EXCEPT
        !.alternateDate = alt.value, !.altReads = alt.reads,
        !.fields = @ \cup {"alternateDate"}]

Accept(why, anchor, made, pos, lowellCheck) ==
    [Verdict0 EXCEPT !.valid = TRUE, !.reason = why, !.calls = made,
        !.isAnchor = anchor, !.geocode = Some(pos),
        !.distanceFromLowell = Some(lowellCheck.distance),
        !.travelTimeFromLowell = Some(lowellCheck.travelTime),
        !.fields = {"valid", "reason", "message", "isAnchor", "geocode",
                    "distanceFromLowell", "travelTimeFromLowell"}]

\* Step 4 of validateBooking: existingBookings.length >= MAX_BOOKINGS_PER_DAY.
AtCapacity_OffByOne(existingBookings) == Len(existingBookings) > MAX_BOOKINGS_PER_DAY

AtCapacity(existingBookings) == Len(existingBookings) >= MAX_BOOKINGS_PER_DAY

\* Step 5 of validateBooking: existingBookings.length === 0.
FirstOfDay_OffByOne(existingBookings) == Len(existingBookings) = 1

FirstOfDay(existingBookings) == Len(existingBookings) = 0

\* validateBooking(bookingRequest) against the store its database module reads;
\* pos is the location geocodeAddress returns for the address when it
\* returns, fail names the external call of this run that throws, if any.
validateBookingAt(req, pos, store, fail) ==
    IF req.booking_date = None THEN Reject("missing_booking_date", <<>>)
    ELSE LET booking_date == req.booking_date[1] IN
    IF ~isWorkingDayString(booking_date)
    THEN \* formatDate of an Invalid Date: toISOString throws a RangeError,
         \* before the try block
         IF booking_date = InvalidDate THEN Threw
         ELSE [Reject("non_working_day", <<>>) EXCEPT
                  !.nextWorkingDate = Some(formatDate(
                      shiftToWorkingDay(DateFromLocal(booking_date), FALSE))),
                  !.fields = @ \cup {"nextWorkingDate"}]
    ELSE LET c1 == <<"geocodeAddress">> IN
    IF fail = "geocode" THEN Reject("validation_error", c1)
    ELSE LET c2 == c1 \o <<"checkDistanceFromLowell">> IN
    IF fail = "lowell" THEN Reject("validation_error", c2)
    ELSE LET lowellCheck == checkDistanceFromLowell(pos) IN
    IF ~lowellCheck.valid
    THEN [Reject("outside_service_area", c2) EXCEPT
             !.details = Some(lowellCheck), !.fields = @ \cup {"details"}]
    ELSE LET c3 == c2 \o <<"getBookingsByDate">> IN
    IF fail = "store" THEN Reject("validation_error", c3)
    ELSE LET existingBookings == getBookingsByDate(store, booking_date) IN
    IF AtCapacity(existingBookings)
    THEN RejectWithAlternate("day_full", c3,
             suggestAlternateDate(booking_date, pos, store, fail = "altStore"))
    ELSE IF FirstOfDay(existingBookings)
    THEN Accept("anchor_booking", TRUE, c3, pos, lowellCheck)
    ELSE LET anchorBooking == FindAnchor(existingBookings) IN
    IF anchorBooking = None
    THEN Accept("no_anchor_found", FALSE, c3, pos, lowellCheck)
    ELSE LET c4 == c3 \o <<"checkDistanceFromAnchor">> IN
    IF fail = "anchor" THEN Reject("validation_error", c4)
    ELSE LET anchorCheck == checkDistanceFromAnchor(pos, anchorBooking[1].pos) IN
    IF ~anchorCheck.valid
    THEN [RejectWithAlternate("too_far_from_anchor", c4,
              suggestAlternateDate(booking_date, pos, store, fail = "altStore"))
             EXCEPT !.details = Some(anchorCheck), !.fields = @ \cup {"details"}]
    ELSE LET c5 == c4 \o <<"checkTimeAvailability">>
             timeCheck == checkTimeAvailability(existingBookings, req.booking_time) IN
    IF ~timeCheck.valid
    THEN [Reject("time_conflict", c5) EXCEPT
             !.suggestedTimes = timeCheck.suggestedTimes,
             !.fields = @ \cup {"suggestedTimes"}]
    ELSE [Accept("valid_booking", FALSE, c5, pos, lowellCheck) EXCEPT
             !.distanceFromAnchor = Some(anchorCheck.distance),
             !.travelTimeFromAnchor = Some(anchorCheck.travelTime),
             !.fields = @ \cup {"distanceFromAnchor", "travelTimeFromAnchor"}]

\* validateBooking when geocodeAddress answers from the geocoding source.
validateBooking(req, store, fail) ==
    validateBookingAt(req, Position(req.address), store, fail)

-----------------------------------------------------------------------------
(* Auto scheduling: autoScheduleBooking and its helpers                    *)

\* pickTimeSlot choosing the last free preferred slot.
pickTimeSlot_LastFree(existingBookings) ==
    LET usedTimes == {existingBookings[i].booking_time : i \in 1..Len(existingBookings)}
        free == SelectSeq(DEFAULT_TIME_SLOTS, LAMBDA slot : slot \notin usedTimes)
    IN  IF free = <<>> THEN None ELSE Some(free[Len(free)])

\* pickTimeSlot(existingBookings): the first of DEFAULT_TIME_SLOTS that is the
\* booking_time of no existing booking, or null.
pickTimeSlot(existingBookings) ==
    LET usedTimes == {existingBookings[i].booking_time : i \in 1..Len(existingBookings)}
        free == SelectSeq(DEFAULT_TIME_SLOTS, LAMBDA slot : slot \notin usedTimes)
    IN  IF free = <<>> THEN None ELSE Some(Head(free))

\* normalizeStartDate(dateString) when the host's clock reads the local day
\* today: today and the parsed date are put at local midnight (setHours(0,0,0,0));
\* new Date(dateString) of a date-only string is UTC midnight.
normalizeStartDate(dateString, today) ==
    LET todayMidnight == DateFromLocal(today)
    IN  IF dateString = None \/ dateString = Some(InvalidDate)
        THEN shiftToWorkingDay(todayMidnight, TRUE)
        ELSE LET parsed == DateFromLocal(LocalDay(DateFromISO(dateString[1])))
                 baseline == IF parsed < todayMidnight THEN todayMidnight ELSE parsed
             IN  shiftToWorkingDay(baseline, TRUE)

\* The reference booking of a day that holds bookings, taking the last
\* booking when none is flagged.
AnchorOrFirst_Last(rows) ==
    IF FindAnchor(rows) # None THEN FindAnchor(rows)[1] ELSE rows[Len(rows)]

\* bookings.find(b => b.is_anchor) || bookings[0]
AnchorOrFirst(rows) ==
    IF FindAnchor(rows) # None THEN FindAnchor(rows)[1] ELSE rows[1]

\* What the scan of autoScheduleBooking found: examined are the candidate
\* dates of its iterations, reads the dates whose bookings it read,
\* anchorChecks the dates for which it computed the distance from an anchor.
ScanNone == [outcome |-> "none", date |-> 0, time |-> None, isAnchor |-> FALSE,
             anchorCheck |-> None, anchorPos |-> None,
             examined |-> <<>>, reads |-> <<>>, anchorChecks |-> <<>>]
ScanThrew == [ScanNone EXCEPT !.outcome = "threw"]

\* One more iteration in front of the rest of a scan.
ScanAfter(dateString, didRead, didCheck, rest) ==
    [rest EXCEPT !.examined = <<dateString>> \o @,
                 !.reads = (IF didRead THEN <<dateString>> ELSE <<>>) \o @,
                 !.anchorChecks = (IF didCheck THEN <<dateString>> ELSE <<>>) \o @]

\* The scan that stops one day earlier: offset < maxDays.
RECURSIVE AutoScan_Exclusive(_, _, _, _, _)
AutoScan_Exclusive(offset, startDate, pos, store, fail) ==
    IF offset >= MAX_DAYS_TO_SUGGEST THEN ScanNone
    ELSE LET candidateDate == AddDays(startDate, offset)
             dateString == formatDate(candidateDate)
             rest == AutoScan_Exclusive(offset + 1, startDate, pos, store, fail)
         IN  IF ~isWorkingDay(candidateDate) THEN ScanAfter(dateString, FALSE, FALSE, rest)
             ELSE IF fail = "store" THEN ScanAfter(dateString, TRUE, FALSE, ScanThrew)
             ELSE LET rows == getBookingsByDate(store, dateString) IN
             IF Len(rows) >= MAX_BOOKINGS_PER_DAY THEN ScanAfter(dateString, TRUE, FALSE, rest)
             ELSE LET isAnchor == Len(rows) = 0 IN
             IF ~isAnchor /\ fail = "anchor" THEN ScanAfter(dateString, TRUE, TRUE, ScanThrew)
             ELSE LET anchorCheck ==
                          IF isAnchor THEN None
                          ELSE Some(checkDistanceFromAnchor(pos, AnchorOrFirst(rows).pos))
                      suggestedTime == pickTimeSlot(rows) IN
             IF anchorCheck # None /\ ~anchorCheck[1].valid
             THEN ScanAfter(dateString, TRUE, TRUE, rest)
             ELSE IF suggestedTime = None THEN ScanAfter(dateString, TRUE, ~isAnchor, rest)
             ELSE ScanAfter(dateString, TRUE, ~isAnchor,
                      [ScanNone EXCEPT !.outcome = "found", !.date = dateString,
                          !.time = suggestedTime, !.isAnchor = isAnchor,
                          !.anchorCheck = anchorCheck,
                          !.anchorPos = IF isAnchor THEN None
                                        ELSE Some(AnchorOrFirst(rows).pos)])

\* The loop of autoScheduleBooking from offset to maxDays inclusive; fail
\* names the external call that throws, if any.
RECURSIVE AutoScan(_, _, _, _, _)
AutoScan(offset, startDate, pos, store, fail) ==
    IF offset > MAX_DAYS_TO_SUGGEST THEN ScanNone
    ELSE LET candidateDate == AddDays(startDate, offset)
             dateString == formatDate(candidateDate)
             rest == AutoScan(offset + 1, startDate, pos, store, fail)
         IN  IF ~isWorkingDay(candidateDate) THEN ScanAfter(dateString, FALSE, FALSE, rest)
             ELSE IF fail = "store" THEN ScanAfter(dateString, TRUE, FALSE, ScanThrew)
             ELSE LET rows == getBookingsByDate(store, dateString) IN
             IF Len(rows) >= MAX_BOOKINGS_PER_DAY THEN ScanAfter(dateString, TRUE, FALSE, rest)
             ELSE LET isAnchor == Len(rows) = 0 IN
             IF ~isAnchor /\ fail = "anchor" THEN ScanAfter(dateString, TRUE, TRUE, ScanThrew)
             ELSE LET anchorCheck ==
                          IF isAnchor THEN None
                          ELSE Some(checkDistanceFromAnchor(pos, AnchorOrFirst(rows).pos))
                      suggestedTime == pickTimeSlot(rows) IN
             IF anchorCheck # None /\ ~anchorCheck[1].valid
             THEN ScanAfter(dateString, TRUE, TRUE, rest)
             ELSE IF suggestedTime = None THEN ScanAfter(dateString, TRUE, ~isAnchor, rest)
             ELSE ScanAfter(dateString, TRUE, ~isAnchor,
                      [ScanNone EXCEPT !.outcome = "found", !.date = dateString,
                          !.time = suggestedTime, !.isAnchor = isAnchor,
                          !.anchorCheck = anchorCheck,
                          !.anchorPos = IF isAnchor THEN None
                                        ELSE Some(AnchorOrFirst(rows).pos)])

\* A result of autoScheduleBooking.
AutoVerdict0 ==
    [scheduled |-> FALSE, valid |-> FALSE, reason |-> "",
     booking_date |-> None, booking_time |-> None, isAnchor |-> FALSE,
     geocode |-> None, distanceFromLowell |-> None, travelTimeFromLowell |-> None,
     distanceFromAnchor |-> None, travelTimeFromAnchor |-> None, anchorAddress |-> None,
     details |-> None, calls |-> <<>>,
     examined |-> <<>>, reads |-> <<>>, anchorChecks |-> <<>>]

AutoReject(why, made) == [AutoVerdict0 EXCEPT !.reason = why, !.calls = made]

\* autoScheduleBooking(bookingRequest) when the host's clock reads the local
\* day today and geocodeAddress returns pos for the address.
autoScheduleBookingAt(req, pos, store, today, fail) ==
    LET c1 == <<"geocodeAddress">> IN
    IF fail = "geocode" THEN AutoReject("auto_schedule_error", c1)
    ELSE LET c2 == c1 \o <<"checkDistanceFromLowell">> IN
    IF fail = "lowell" THEN AutoReject("auto_schedule_error", c2)
    ELSE LET lowellCheck == checkDistanceFromLowell(pos) IN
    IF ~lowellCheck.valid
    THEN [AutoReject("outside_service_area", c2) EXCEPT !.details = Some(lowellCheck)]
    ELSE LET dateString == IF req.preferred_start_date # None
                           THEN req.preferred_start_date ELSE req.booking_date
             startDate == normalizeStartDate(dateString, today)
             scan == AutoScan(0, startDate, pos, store, fail)
             seen == [AutoVerdict0 EXCEPT !.calls = c2, !.examined = scan.examined,
                         !.reads = scan.reads, !.anchorChecks = scan.anchorChecks] IN
    IF scan.outcome = "threw" THEN [seen EXCEPT !.reason = "auto_schedule_error"]
    ELSE IF scan.outcome = "none" THEN [seen EXCEPT !.reason = "no_slot_available"]
    ELSE [seen EXCEPT !.scheduled = TRUE, !.valid = TRUE,
             !.booking_date = Some(scan.date), !.booking_time = scan.time,
             !.isAnchor = scan.isAnchor, !.geocode = Some(pos),
             !.distanceFromLowell = Some(lowellCheck.distance),
             !.travelTimeFromLowell = Some(lowellCheck.travelTime),
             !.distanceFromAnchor =
                 IF scan.anchorCheck = None THEN None ELSE Some(scan.anchorCheck[1].distance),
             !.travelTimeFromAnchor =
                 IF scan.anchorCheck = None THEN None ELSE Some(scan.anchorCheck[1].travelTime),
             !.anchorAddress = scan.anchorPos]

\* autoScheduleBooking when geocodeAddress answers from the geocoding source.
autoScheduleBooking(req, store, today, fail) ==
    autoScheduleBookingAt(req, Position(req.address), store, today, fail)

-----------------------------------------------------------------------------
(* What a run leaves in geocodeCache                                       *)

\* The Map after the lookups of keys have succeeded: geocodeCache.set(key,
\* location) for each key that was not cached.
CacheAfter(cache, keys) ==
    cache \cup {[key |-> k, location |-> Some(SourceLocation(k))] :
                  k \in {x \in keys : ~CacheHas(cache, x)}}

\* The 'lat,lng' keys of the flagged anchors checkDistanceFromAnchor was
\* called with for the days in dates.
AnchorKeys(store, dates) ==
    {CoordsKey(FindAnchor(getBookingsByDate(store, d))[1].pos) :
        d \in {x \in dates : FindAnchor(getBookingsByDate(store, x)) # None}}

\* The keys a run of validateBooking looked up with success: the address
\* once the geocode gate is passed, the base and the location once the
\* radius is computed, the anchor of the date once the proximity is
\* computed, and the anchors of the days below capacity that
\* suggestAlternateDate compared.
ValidateLookups(req, pos, store, verdict) ==
    LET made == Range(verdict.calls)
        failed == verdict.reason = "validation_error"
    IN  (IF "checkDistanceFromLowell" \in made THEN {AddressKey(req.address)} ELSE {})
        \cup (IF "getBookingsByDate" \in made \/ verdict.reason = "outside_service_area"
              THEN {CoordsKey(BasePosition), CoordsKey(pos)} ELSE {})
        \cup (IF "checkDistanceFromAnchor" \in made /\ ~failed
              THEN AnchorKeys(store, {req.booking_date[1]}) ELSE {})
        \cup AnchorKeys(store,
                 {d \in Range(verdict.altReads) :
                     /\ Len(getBookingsByDate(store, d)) > 0
                     /\ Len(getBookingsByDate(store, d)) < MAX_BOOKINGS_PER_DAY})

\* The keys a run of autoScheduleBooking looked up with success.
AutoLookups(req, pos, store, fail, verdict) ==
    LET made == Range(verdict.calls)
        checked == verdict.anchorChecks
        passed == IF fail = "anchor" /\ verdict.reason = "auto_schedule_error"
                  THEN SubSeq(checked, 1, Len(checked) - 1) ELSE checked
    IN  (IF "checkDistanceFromLowell" \in made THEN {AddressKey(req.address)} ELSE {})
        \cup (IF verdict.reason = "outside_service_area" \/ verdict.examined # <<>>
              THEN {CoordsKey(BasePosition), CoordsKey(pos)} ELSE {})
        \cup {CoordsKey(AnchorOrFirst(getBookingsByDate(store, d)).pos) : d \in Range(passed)}

\* validateBooking run by a process whose MapsService holds cache: the
\* verdict and the Map afterwards. fail = "geocode": the source fails when it
\* is asked for the address.
validateBookingCached(cache, req, store, fail) ==
    LET g == geocodeAddress(cache, AddressKey(req.address), fail = "geocode")
        verdict == IF g.threw THEN validateBookingAt(req, BasePosition, store, "geocode")
                   ELSE validateBookingAt(req, g.location[1], store,
                                          IF fail = "geocode" THEN "none" ELSE fail)
    IN  [verdict |-> verdict,
         cache |-> IF verdict.calls = <<>> THEN cache
                   ELSE IF g.threw THEN g.cache
                   ELSE CacheAfter(g.cache,
                            ValidateLookups(req, g.location[1], store, verdict))]

\* autoScheduleBooking run by a process whose MapsService holds cache.
autoScheduleBookingCached(cache, req, store, today, fail) ==
    LET g == geocodeAddress(cache, AddressKey(req.address), fail = "geocode")
        verdict == IF g.threw
                   THEN autoScheduleBookingAt(req, BasePosition, store, today, "geocode")
                   ELSE autoScheduleBookingAt(req, g.location[1], store, today,
                                              IF fail = "geocode" THEN "none" ELSE fail)
    IN  [verdict |-> verdict,
         cache |-> IF g.threw THEN g.cache
                   ELSE CacheAfter(g.cache,
                            AutoLookups(req, g.location[1], store, fail, verdict))]

-----------------------------------------------------------------------------
(* States of the Postgres store the validator reads. No handler of the     *)
(* router writes it (api/index.js requires ../database, the sqlite store), *)
(* so what it holds is what the deployment's database held before.         *)

\* A row of a bookings table; pos stands for (latitude, longitude).
Row(id, day, time, pos, anchor, fromAnchor) ==
    [id |-> id, booking_date |-> day, booking_time |-> time, pos |-> pos,
     is_anchor |-> anchor,
     distance_from_lowell |-> checkDistanceFromLowell(pos).distance,
     travel_time_from_lowell |-> checkDistanceFromLowell(pos).travelTime,
     distance_from_anchor |-> IF fromAnchor = None THEN None ELSE Some(fromAnchor[1].distance),
     travel_time_from_anchor |-> IF fromAnchor = None THEN None ELSE Some(fromAnchor[1].travelTime)]

Entry(time, addr, anchor) == [time |-> time, addr |-> addr, anchor |-> anchor]

\* The bookings of one day: none; an anchor at A; an anchor at C; one booking
\* at A whose anchor was removed; a full day around an anchor at A.
DayTemplates ==
    {<<>>,
     <<Entry(T(8, 0), "A", TRUE)>>,
     <<Entry(T(8, 0), "C", TRUE)>>,
     <<Entry(T(8, 0), "A", FALSE)>>,
     <<Entry(T(8, 0), "A", TRUE), Entry(T(12, 0), "B", FALSE), Entry(T(16, 0), "A", FALSE)>>}

FullDay == <<Entry(T(8, 0), "A", TRUE), Entry(T(12, 0), "B", FALSE), Entry(T(16, 0), "A", FALSE)>>

DayRows(day, template) ==
    [i \in 1..Len(template) |->
        Row(day * 10 + i, day, template[i].time, Position(template[i].addr),
            template[i].anchor, None)]

LastReqDate == CHOOSE d \in ReqDates : \A e \in ReqDates : e <= d

\* The days after the requested ones that a 14-day search can reach.
LaterDays == (LastReqDate + 1)..(LastReqDate + MAX_DAYS_TO_SUGGEST)

RECURSIVE ManyDayRows(_, _, _)
ManyDayRows(from, to, template) ==
    IF from > to THEN <<>>
    ELSE DayRows(from, template) \o ManyDayRows(from + 1, to, template)

\* byDay gives each requested day its bookings; the later days are all alike.
PgImage(byDay, later) ==
    LET RECURSIVE Days(_)
        Days(d) == IF d > LastReqDate THEN <<>>
                   ELSE (IF d \in ReqDates THEN DayRows(d, byDay[d]) ELSE <<>>) \o Days(d + 1)
        first == CHOOSE d \in ReqDates : \A e \in ReqDates : d <= e
    IN  Days(first) \o ManyDayRows(LastReqDate + 1, LastReqDate + MAX_DAYS_TO_SUGGEST, later)

PgImages ==
    {PgImage(byDay, later) : byDay \in [ReqDates -> DayTemplates], later \in {<<>>, FullDay}}

-----------------------------------------------------------------------------
(* Requests                                                                *)

DateInputs == {None, Some(InvalidDate)} \cup {Some(d) : d \in ReqDates}
TimeInputs == {None} \cup {Some(t) : t \in ReqTimes}

\* The body of a request: address, booking_date, booking_time (customer_name
\* and the other fields do not bear on the outcome when present).
Requests == [address : Addresses, booking_date : DateInputs, booking_time : TimeInputs]

NoLast ==
    [op |-> "none", req |-> [address |-> "A", booking_date |-> None, booking_time |-> None],
     fail |-> "none", status |-> 0, verdict |-> Verdict0]

-----------------------------------------------------------------------------
(* The validator called on its own                                         *)

InitValidator ==
    /\ workingDays \in WorkingDayConfigs
    /\ tzOffset \in TzOffsets
    /\ pgBookings \in PgImages
    /\ bookings = <<>>
    /\ nextId = 1
    /\ inflight = <<>>
    /\ geocodeCache = ColdCache
    /\ cancelled = <<>> /\ completed = <<>> /\ pgCancelled = <<>> /\ pgCompleted = <<>>
    /\ last = NoLast

\* bookingValidator.validateBooking(bookingRequest). The validator keeps no
\* state of its own and writes none, so one call from each state of the store
\* stands for a call at any point of a sequence of calls.
ValidateBookingCall ==
    \E req \in Requests, fail \in FailPoints :
        /\ last.op = "none"
        /\ last' = [op |-> "validateBooking", req |-> req, fail |-> fail, status |-> 0,
                    verdict |-> validateBooking(req, pgBookings, fail)]
        /\ geocodeCache' = CacheAfter(geocodeCache,
               ValidateLookups(req, Position(req.address), pgBookings,
                               validateBooking(req, pgBookings, fail)))
        /\ UNCHANGED archives
        /\ UNCHANGED <<workingDays, tzOffset, pgBookings, bookings, nextId, inflight>>

NextValidator == ValidateBookingCall

SpecValidator == InitValidator /\ [][NextValidator]_vars

-----------------------------------------------------------------------------
(* The router: api/index.js, whose database is the sqlite store            *)

\* The most rows the model lets the sqlite bookings table hold.
MaxBookings == 4

\* The request bodies of the router's runs: every address on every date with
\* no time, one request that names a time, one with no booking_date and one
\* whose booking_date does not parse.
RouterAddresses == {"A", "C", "Far"}
RouterRequests ==
    {r \in Requests : /\ r.address \in RouterAddresses
                      /\ r.booking_date \in {Some(d) : d \in ReqDates}
                      /\ r.booking_time = None}
    \cup {[address |-> "A", booking_date |-> Some(LastReqDate - 1), booking_time |-> Some(T(8, 0))],
          [address |-> "A", booking_date |-> None, booking_time |-> None],
          [address |-> "A", booking_date |-> Some(InvalidDate), booking_time |-> None]}

\* Hosts the router's runs start on: configuration, time zone and what the
\* Postgres store holds (nothing; an anchor at A on the first date and a full
\* second date).
RouterEnvs ==
    {[wd |-> ShippedWorkingDays, tz |-> 0, pg |-> <<>>],
     [wd |-> WeekdaysOnly, tz |-> 0 - 5, pg |-> <<>>],
     [wd |-> ShippedWorkingDays, tz |-> 1,
      pg |-> PgImage([d \in ReqDates |->
                        IF d = LastReqDate THEN FullDay
                        ELSE <<Entry(T(8, 0), "A", TRUE)>>], <<>>)]}

\* x || null: null for a missing value and for 0.
OrNull(x) == IF x = None \/ x = Some(0) THEN None ELSE x

\* The newBooking object POST /bookings builds from the request and the verdict.
NewBooking(req, verdict) ==
    [booking_date |-> req.booking_date[1],
     booking_time |-> IF req.booking_time = None THEN T(9, 0) ELSE req.booking_time[1],
     pos |-> verdict.geocode[1],
     is_anchor |-> verdict.isAnchor,
     distance_from_lowell |-> verdict.distanceFromLowell[1],
     travel_time_from_lowell |-> verdict.travelTimeFromLowell[1],
     distance_from_anchor |-> OrNull(verdict.distanceFromAnchor),
     travel_time_from_anchor |-> OrNull(verdict.travelTimeFromAnchor)]

\* Database.createBooking of database.js: INSERT INTO bookings; the row gets
\* the next id, is_anchor is stored as 1 or 0, the distances as value || null.
createBooking(store, id, booking) ==
    Append(store,
        [id |-> id,
         booking_date |-> booking.booking_date,
         booking_time |-> booking.booking_time,
         pos |-> booking.pos,
         is_anchor |-> booking.is_anchor,
         distance_from_lowell |-> booking.distance_from_lowell,
         travel_time_from_lowell |-> booking.travel_time_from_lowell,
         distance_from_anchor |-> OrNull(booking.distance_from_anchor),
         travel_time_from_anchor |-> OrNull(booking.travel_time_from_anchor)])

InitRouter ==
    /\ \E env \in RouterEnvs :
          /\ workingDays = env.wd
          /\ tzOffset = env.tz
          /\ pgBookings = env.pg
    /\ bookings = <<>>
    /\ nextId = 1
    /\ inflight = <<>>
    /\ geocodeCache = WarmCache
    /\ cancelled = <<>> /\ completed = <<>> /\ pgCancelled = <<>> /\ pgCompleted = <<>>
    /\ last = NoLast

Answer(op, req, fail, status, verdict) ==
    [op |-> op, req |-> req, fail |-> fail, status |-> status, verdict |-> verdict]

\* router.post('/bookings') run from its first line to its response with no
\* other request in between: 400 for a missing field, validateBooking (which
\* reads the Postgres store), 400 for a rejection, else createBooking on the
\* sqlite store and 201; 500 when validateBooking or the insert throws.
PostBookingOf(op, req, fail) ==
        LET verdict == validateBooking(req, pgBookings, fail) IN
        /\ geocodeCache' = CacheAfter(geocodeCache,
               ValidateLookups(req, Position(req.address), pgBookings, verdict))
        /\ UNCHANGED archives
        /\ IF req.booking_date = None
           THEN /\ last' = Answer(op, req, fail, 400, Verdict0)
                /\ UNCHANGED <<workingDays, tzOffset, pgBookings, bookings, nextId, inflight>>
           ELSE IF verdict.threw
           THEN /\ last' = Answer(op, req, fail, 500, verdict)
                /\ UNCHANGED <<workingDays, tzOffset, pgBookings, bookings, nextId, inflight>>
           ELSE IF ~verdict.valid
           THEN /\ last' = Answer(op, req, fail, 400, verdict)
                /\ UNCHANGED <<workingDays, tzOffset, pgBookings, bookings, nextId, inflight>>
           ELSE IF fail = "insert"
           THEN /\ last' = Answer(op, req, fail, 500, verdict)
                /\ UNCHANGED <<workingDays, tzOffset, pgBookings, bookings, nextId, inflight>>
           ELSE /\ Len(bookings) < MaxBookings
                /\ bookings' = createBooking(bookings, nextId, NewBooking(req, verdict))
                /\ nextId' = nextId + 1
                /\ last' = Answer(op, req, fail, 201, verdict)
                /\ UNCHANGED <<workingDays, tzOffset, pgBookings, inflight>>

\* router.post('/bookings')
PostBooking ==
    \E req \in RouterRequests, fail \in {"none", "insert"} :
        PostBookingOf("postBooking", req, fail)

Next == PostBooking

Spec == InitRouter /\ [][Next]_vars

-----------------------------------------------------------------------------
(* Two POST /bookings requests in flight at once                           *)

\* The requests the node process serves at the same time: each handler runs to
\* its next await, so the store read inside validateBooking and the later
\* insert of one request can have the other request's steps between them.
Clients == {"c1", "c2"}

RaceRequests ==
    {r \in RouterRequests : r.booking_date = Some(LastReqDate - 1) /\ r.booking_time = None}

\* The Postgres store of the racing runs: nothing, or a first date that holds
\* MAX_BOOKINGS_PER_DAY - 1 bookings.
RaceEnvs ==
    {[wd |-> ShippedWorkingDays, tz |-> 0, pg |-> <<>>],
     [wd |-> ShippedWorkingDays, tz |-> 0,
      pg |-> PgImage([d \in ReqDates |->
                        IF d = LastReqDate THEN <<>>
                        ELSE <<Entry(T(8, 0), "A", TRUE), Entry(T(12, 0), "A", FALSE)>>], <<>>)]}

Idle == <<>>

InitRace ==
    /\ \E env \in RaceEnvs :
          /\ workingDays = env.wd
          /\ tzOffset = env.tz
          /\ pgBookings = env.pg
    /\ bookings = <<>>
    /\ nextId = 1
    /\ inflight = [c \in Clients |-> Idle]
    /\ geocodeCache = WarmCache
    /\ cancelled = <<>> /\ completed = <<>> /\ pgCancelled = <<>> /\ pgCompleted = <<>>
    /\ last = NoLast

\* router.post('/bookings') up to `await database.createBooking(newBooking)`:
\* the field check, validateBooking and the 400 of a rejection; an accepted
\* request holds its newBooking until its insert runs.
PostValidate(c) ==
    \E req \in RaceRequests :
        LET verdict == validateBooking(req, pgBookings, "none") IN
        /\ inflight[c] = Idle
        /\ IF verdict.threw
           THEN /\ last' = Answer("postBooking", req, "none", 500, verdict)
                /\ UNCHANGED inflight
           ELSE IF ~verdict.valid
           THEN /\ last' = Answer("postBooking", req, "none", 400, verdict)
                /\ UNCHANGED inflight
           ELSE /\ inflight' = [inflight EXCEPT ![c] =
                                    <<[req |-> req, verdict |-> verdict,
                                       newBooking |-> NewBooking(req, verdict)]>>]
                /\ UNCHANGED last
        /\ geocodeCache' = CacheAfter(geocodeCache,
               ValidateLookups(req, Position(req.address), pgBookings, verdict))
        /\ UNCHANGED archives
        /\ UNCHANGED <<workingDays, tzOffset, pgBookings, bookings, nextId>>

\* The rest of the handler: database.createBooking on the sqlite store and 201.
PostInsert(c) ==
    /\ inflight[c] # Idle
    /\ Len(bookings) < MaxBookings
    /\ bookings' = createBooking(bookings, nextId, inflight[c][1].newBooking)
    /\ nextId' = nextId + 1
    /\ inflight' = [inflight EXCEPT ![c] = Idle]
    /\ last' = Answer("postBooking", inflight[c][1].req, "none", 201, inflight[c][1].verdict)
    /\ UNCHANGED <<workingDays, tzOffset, pgBookings, geocodeCache>>
    /\ UNCHANGED archives

NextRace == \E c \in Clients : PostValidate(c) \/ PostInsert(c)

SpecRace == InitRace /\ [][NextRace]_vars

-----------------------------------------------------------------------------
(* The time-slot functions on days of many shapes                          *)

\* The most bookings a day of these runs holds.
MaxDayRows == 4

\* booking_time values of the rows and of the requests.
TimeGrid == {T(1, 0), T(8, 0), T(11, 30), T(13, 0), T(17, 0), T(20, 0), T(23, 0)}

SlotDay == LastReqDate - 1

RECURSIVE TimesInOrder(_)
TimesInOrder(times) ==
    IF times = {} THEN <<>>
    ELSE LET t == CHOOSE t \in times : \A u \in times : TimeKey(t) <= TimeKey(u)
         IN  <<t>> \o TimesInOrder(times \ {t})

\* A store whose only bookings are on one day, all at A, the first one the
\* flagged anchor, at the given times.
SlotImage(times) ==
    LET ts == TimesInOrder(times)
    IN  DayRows(SlotDay, [i \in 1..Len(ts) |-> Entry(ts[i], "A", i = 1)])

SlotImages ==
    {SlotImage(times) : times \in {S \in SUBSET TimeGrid :
                                      Cardinality(S) \in 1..MaxDayRows}}

SlotRequests ==
    {[address |-> "A", booking_date |-> Some(SlotDay), booking_time |-> t] :
        t \in {None} \cup {Some(u) : u \in TimeGrid}}

InitSlots ==
    /\ workingDays = ShippedWorkingDays
    /\ tzOffset \in TzOffsets
    /\ pgBookings \in SlotImages
    /\ bookings = <<>>
    /\ nextId = 1
    /\ inflight = <<>>
    /\ geocodeCache = ColdCache
    /\ cancelled = <<>> /\ completed = <<>> /\ pgCancelled = <<>> /\ pgCompleted = <<>>
    /\ last = NoLast

\* POST /validate-booking for a request that names one of the times.
ValidateTimedCall ==
    \E req \in SlotRequests :
        /\ last.op = "none"
        /\ last' = Answer("validateBooking", req, "none", 0,
                          validateBooking(req, pgBookings, "none"))
        /\ geocodeCache' = CacheAfter(geocodeCache,
               ValidateLookups(req, Position(req.address), pgBookings,
                               validateBooking(req, pgBookings, "none")))
        /\ UNCHANGED archives
        /\ UNCHANGED <<workingDays, tzOffset, pgBookings, bookings, nextId, inflight>>

\* findAvailableTimeSlots(existingBookings) on the bookings of the day.
FindSlotsCall ==
    /\ last.op = "none"
    /\ last' = Answer("findAvailableTimeSlots",
                      [address |-> "A", booking_date |-> Some(SlotDay), booking_time |-> None],
                      "none", 0,
                      [Verdict0 EXCEPT !.suggestedTimes =
                          findAvailableTimeSlots(getBookingsByDate(pgBookings, SlotDay))])
    /\ UNCHANGED geocodeCache
    /\ UNCHANGED archives
    /\ UNCHANGED <<workingDays, tzOffset, pgBookings, bookings, nextId, inflight>>

NextSlots == ValidateTimedCall \/ FindSlotsCall

SpecSlots == InitSlots /\ [][NextSlots]_vars

-----------------------------------------------------------------------------
(* The auto scheduler called on stores of many shapes                      *)

\* The bookings of one day: none; an anchor at A or at C at 08:00; a full
\* day; an anchor at A at 08:00 and a second booking at 11:30; an anchor at A
\* at 11:30; two bookings without a flag, A at 12:00 created before C at
\* 08:00; an anchor at A at 11:30 created before a booking at C at 08:00.
AutoDayTemplates ==
    {<<>>,
     <<Entry(T(8, 0), "A", TRUE)>>,
     <<Entry(T(8, 0), "C", TRUE)>>,
     FullDay,
     <<Entry(T(8, 0), "A", TRUE), Entry(T(11, 30), "A", FALSE)>>,
     <<Entry(T(11, 30), "A", TRUE)>>,
     <<Entry(T(12, 0), "A", FALSE), Entry(T(8, 0), "C", FALSE)>>,
     <<Entry(T(11, 30), "A", TRUE), Entry(T(8, 0), "C", FALSE)>>}

AutoPgImages ==
    {PgImage(byDay, later) : byDay \in [ReqDates -> AutoDayTemplates],
                             later \in {<<>>, FullDay}}

\* The local day the host's clock reads: the first requested date, or the
\* day after the last one.
Todays == {LastReqDate - 1, LastReqDate + 1}

\* The body of a request: preferred_start_date is missing, a date or a string
\* that does not parse; booking_date is read when preferred_start_date is missing.
AutoRequests ==
    [address : Addresses,
     preferred_start_date : DateInputs,
     booking_date : {None}]
    \cup [address : Addresses, preferred_start_date : {None},
          booking_date : {Some(LastReqDate)}]

AutoFails == {"none", "store", "anchor"}

AutoAnswer(req, today, fail, status, verdict) ==
    [op |-> "autoSchedule", req |-> req, today |-> today, fail |-> fail,
     status |-> status, verdict |-> verdict]

InitAuto ==
    /\ workingDays \in WorkingDayConfigs
    /\ tzOffset \in TzOffsets
    /\ pgBookings \in AutoPgImages
    /\ bookings = <<>>
    /\ nextId = 1
    /\ inflight = <<>>
    /\ geocodeCache = ColdCache
    /\ cancelled = <<>> /\ completed = <<>> /\ pgCancelled = <<>> /\ pgCompleted = <<>>
    /\ last = NoLast

\* router.post('/auto-schedule') for a body that names customer_name and
\* address: autoScheduleBooking, 400 unless scheduled.
AutoScheduleCall ==
    \E req \in AutoRequests, today \in Todays, fail \in AutoFails :
        LET result == autoScheduleBooking(req, pgBookings, today, fail) IN
        /\ last.op = "none"
        /\ last' = AutoAnswer(req, today, fail,
                              IF result.scheduled THEN 200 ELSE 400, result)
        /\ geocodeCache' = CacheAfter(geocodeCache,
               AutoLookups(req, Position(req.address), pgBookings, fail, result))
        /\ UNCHANGED archives
        /\ UNCHANGED <<workingDays, tzOffset, pgBookings, bookings, nextId, inflight>>

NextAuto == AutoScheduleCall

SpecAuto == InitAuto /\ [][NextAuto]_vars

\* The client confirms the suggestion it was answered: POST /bookings with the
\* same address and the suggested booking_date and booking_time.
ConfirmSuggestion ==
    /\ last.op = "autoSchedule"
    /\ last.verdict.scheduled
    /\ PostBookingOf("confirm",
                     [address |-> last.req.address,
                      booking_date |-> last.verdict.booking_date,
                      booking_time |-> last.verdict.booking_time], "none")

NextConfirm == AutoScheduleCall \/ ConfirmSuggestion

SpecConfirm == InitAuto /\ [][NextConfirm]_vars

-----------------------------------------------------------------------------
(* One process serving validations and auto-schedules one after the other, *)
(* its geocodeCache filling as it goes                                     *)

\* The store of these runs: an anchor at C on the first requested date,
\* nothing on the other dates.
CachePg ==
    PgImage([d \in ReqDates |->
                IF d = LastReqDate THEN <<>> ELSE <<Entry(T(8, 0), "C", TRUE)>>], <<>>)

CacheToday == LastReqDate - 1

\* Requests for the first date from every address, and auto-schedules from
\* every address, with and without a preferred start date.
CacheValidateRequests ==
    {r \in Requests : r.booking_date = Some(LastReqDate - 1) /\ r.booking_time = None}
CacheAutoRequests ==
    {r \in AutoRequests : /\ r.booking_date = None
                          /\ r.preferred_start_date \in {None, Some(LastReqDate - 1)}}

\* The lookup the geocoding source fails in a run, if any: of the address, or
\* of the coordinates of the base and the location; or the store read fails.
CacheFails == {"none", "geocode", "lowell", "store"}

\* The geocoding source is stable: what it has answered once it answers
\* again, so it fails only on a key the process has not cached.
StableSource(cache, address, fail) ==
    /\ fail = "geocode" => ~CacheHas(cache, AddressKey(address))
    /\ fail = "lowell" =>
           ~(CacheHas(cache, CoordsKey(BasePosition))
             /\ CacheHas(cache, CoordsKey(Position(address))))

\* What the same request got from the call just before, if the call just
\* before was the same call: where the source failed and the verdict.
Before(op, req) ==
    IF last.op = op /\ last.req = req
    THEN Some([fail |-> last.fail, verdict |-> last.verdict]) ELSE None

CacheAnswer(op, req, fail, verdict) ==
    [op |-> op, req |-> req, fail |-> fail, today |-> CacheToday,
     status |-> 0, verdict |-> verdict, before |-> Before(op, req)]

InitCache ==
    /\ workingDays = ShippedWorkingDays
    /\ tzOffset \in TzOffsets
    /\ pgBookings = CachePg
    /\ bookings = <<>>
    /\ nextId = 1
    /\ inflight = <<>>
    /\ geocodeCache = ColdCache
    /\ cancelled = <<>> /\ completed = <<>> /\ pgCancelled = <<>> /\ pgCompleted = <<>>
    /\ last = [today |-> CacheToday, before |-> None] @@ NoLast

\* bookingValidator.validateBooking(bookingRequest) in the running process.
CachedValidateCall ==
    \E req \in CacheValidateRequests, fail \in CacheFails :
        LET run == validateBookingCached(geocodeCache, req, pgBookings, fail) IN
        /\ StableSource(geocodeCache, req.address, fail)
        /\ geocodeCache' = run.cache
        /\ last' = CacheAnswer("validateBooking", req, fail, run.verdict)
        /\ UNCHANGED archives
        /\ UNCHANGED <<workingDays, tzOffset, pgBookings, bookings, nextId, inflight>>

\* bookingValidator.autoScheduleBooking(bookingRequest) in the running process.
CachedAutoScheduleCall ==
    \E req \in CacheAutoRequests, fail \in CacheFails :
        LET run == autoScheduleBookingCached(geocodeCache, req, pgBookings, CacheToday, fail) IN
        /\ StableSource(geocodeCache, req.address, fail)
        /\ geocodeCache' = run.cache
        /\ last' = CacheAnswer("autoSchedule", req, fail, run.verdict)
        /\ UNCHANGED archives
        /\ UNCHANGED <<workingDays, tzOffset, pgBookings, bookings, nextId, inflight>>

NextCache == CachedValidateCall \/ CachedAutoScheduleCall

SpecCache == InitCache /\ [][NextCache]_vars

-----------------------------------------------------------------------------
(* Bookings created and removed, one request after the other               *)

\* A row of cancelled_bookings or completed_bookings: the booking under
\* original_booking_id.
ArchiveRow(row) ==
    [original_booking_id |-> row.id, booking_date |-> row.booking_date,
     booking_time |-> row.booking_time, pos |-> row.pos, is_anchor |-> row.is_anchor]

\* getBookingById(id): the row, or null.
getBookingById(store, id) ==
    LET found == SelectSeq(store, LAMBDA r : r.id = id)
    IN  IF found = <<>> THEN None ELSE Some(Head(found))

\* DELETE FROM bookings WHERE id = ?
deleteBooking(store, id) == SelectSeq(store, LAMBDA r : r.id # id)

\* Database.cancelBooking and Database.completeBooking, of database.js and of
\* database.pg.js alike, run with nothing in between: 'Booking not found'
\* for an id the table lacks, else the row is inserted into the archive table
\* and deleted from bookings.
moveBooking(store, archive, id) ==
    LET booking == getBookingById(store, id) IN
    IF booking = None
    THEN [threw |-> TRUE, store |-> store, archive |-> archive, booking |-> None]
    ELSE [threw |-> FALSE, store |-> deleteBooking(store, id),
          archive |-> Append(archive, ArchiveRow(booking[1])), booking |-> booking]

\* Bookings the router creates in a run.
MaxCreated == 3

LifeDay == LastReqDate - 1

\* The Postgres store of these runs: nothing, or the anchor at A and a second
\* booking at A on the requested date.
LifePgImages ==
    {<<>>,
     PgImage([d \in ReqDates |->
                IF d = LifeDay
                THEN <<Entry(T(8, 0), "A", TRUE), Entry(T(12, 0), "A", FALSE)>>
                ELSE <<>>], <<>>)}

LifeRequests ==
    {r \in RouterRequests : /\ r.booking_date = Some(LifeDay)
                            /\ r.booking_time = None
                            /\ r.address \in {"A", "C"}}

\* The ids a removal may name: those the router's store hands out and one
\* more; in the Postgres store the id of the anchor and an id no row has.
SqliteIds == 1..(MaxCreated + 1)
PgIds == {LifeDay * 10 + 1, LifeDay * 10 + 3}

Removed(op, which, id, status, booking) ==
    [op |-> op, store |-> which, id |-> id, status |-> status, removed |-> booking]

InitLife ==
    /\ workingDays = ShippedWorkingDays
    /\ tzOffset = 0
    /\ pgBookings \in LifePgImages
    /\ bookings = <<>>
    /\ nextId = 1
    /\ inflight = <<>>
    /\ geocodeCache = WarmCache
    /\ cancelled = <<>> /\ completed = <<>> /\ pgCancelled = <<>> /\ pgCompleted = <<>>
    /\ last = NoLast

\* router.post('/bookings')
CreateBooking ==
    \E req \in LifeRequests :
        /\ nextId <= MaxCreated
        /\ PostBookingOf("postBooking", req, "none")

\* router.delete('/bookings/:id'): database.deleteBooking on the sqlite store,
\* 200 whether or not a row had the id.
DeleteBooking ==
    \E id \in SqliteIds :
        /\ bookings' = deleteBooking(bookings, id)
        /\ last' = Removed("deleteBooking", "sqlite", id, 200, getBookingById(bookings, id))
        /\ UNCHANGED archives
        /\ UNCHANGED <<workingDays, tzOffset, pgBookings, nextId, inflight, geocodeCache>>

\* router.patch('/bookings/:id/cancel'): database.cancelBooking on the sqlite
\* store, 500 when it rejects.
CancelBooking ==
    \E id \in SqliteIds :
        LET move == moveBooking(bookings, cancelled, id) IN
        /\ bookings' = move.store
        /\ cancelled' = move.archive
        /\ last' = Removed("cancelBooking", "sqlite", id,
                           IF move.threw THEN 500 ELSE 200, move.booking)
        /\ UNCHANGED <<completed, pgCancelled, pgCompleted>>
        /\ UNCHANGED <<workingDays, tzOffset, pgBookings, nextId, inflight, geocodeCache>>

\* router.post('/bookings/:id/complete'): database.completeBooking on the
\* sqlite store, 500 when it rejects.
CompleteBooking ==
    \E id \in SqliteIds :
        LET move == moveBooking(bookings, completed, id) IN
        /\ bookings' = move.store
        /\ completed' = move.archive
        /\ last' = Removed("completeBooking", "sqlite", id,
                           IF move.threw THEN 500 ELSE 200, move.booking)
        /\ UNCHANGED <<cancelled, pgCancelled, pgCompleted>>
        /\ UNCHANGED <<workingDays, tzOffset, pgBookings, nextId, inflight, geocodeCache>>

\* Database.deleteBooking of database.pg.js, on the store the validator reads.
PgDeleteBooking ==
    \E id \in PgIds :
        /\ pgBookings' = deleteBooking(pgBookings, id)
        /\ last' = Removed("deleteBooking", "pg", id, 0, getBookingById(pgBookings, id))
        /\ UNCHANGED archives
        /\ UNCHANGED <<workingDays, tzOffset, bookings, nextId, inflight, geocodeCache>>

\* Database.cancelBooking of database.pg.js: one transaction.
PgCancelBooking ==
    \E id \in PgIds :
        LET move == moveBooking(pgBookings, pgCancelled, id) IN
        /\ pgBookings' = move.store
        /\ pgCancelled' = move.archive
        /\ last' = Removed("cancelBooking", "pg", id, 0, move.booking)
        /\ UNCHANGED <<cancelled, completed, pgCompleted>>
        /\ UNCHANGED <<workingDays, tzOffset, bookings, nextId, inflight, geocodeCache>>

\* Database.completeBooking of database.pg.js: one transaction.
PgCompleteBooking ==
    \E id \in PgIds :
        LET move == moveBooking(pgBookings, pgCompleted, id) IN
        /\ pgBookings' = move.store
        /\ pgCompleted' = move.archive
        /\ last' = Removed("completeBooking", "pg", id, 0, move.booking)
        /\ UNCHANGED <<cancelled, completed, pgCancelled>>
        /\ UNCHANGED <<workingDays, tzOffset, bookings, nextId, inflight, geocodeCache>>

NextLife ==
    \/ CreateBooking
    \/ DeleteBooking
    \/ CancelBooking
    \/ CompleteBooking
    \/ PgDeleteBooking
    \/ PgCancelBooking
    \/ PgCompleteBooking

SpecLife == InitLife /\ [][NextLife]_vars

-----------------------------------------------------------------------------
(* The read-only calls on stores that hold bookings of every kind          *)

\* getDateStatistics(date)
getDateStatistics(store, date) ==
    LET rows == getBookingsByDate(store, date)
        anchorBooking == FindAnchor(rows)
    IN  [date |-> date,
         bookingCount |-> Len(rows),
         capacity |-> MAX_BOOKINGS_PER_DAY,
         isFull |-> Len(rows) >= MAX_BOOKINGS_PER_DAY,
         hasAnchor |-> anchorBooking # None,
         anchorAddress |-> IF anchorBooking = None THEN None ELSE Some(anchorBooking[1].pos),
         bookings |-> rows]

\* What the stores hold when the calls are made: the Postgres bookings table,
\* the sqlite bookings table, and whether the four archive tables hold a row.
ReadOnlyEnvs ==
    [pg : LifePgImages \cup {CachePg},
     sqlite : {<<>>, DayRows(LifeDay, <<Entry(T(9, 0), "A", TRUE)>>)},
     archived : BOOLEAN]

ArchiveOf(id, archived) ==
    IF archived
    THEN <<ArchiveRow(Row(id, LifeDay, T(15, 0), Position("A"), FALSE, None))>>
    ELSE <<>>

ReadOnlyRequests ==
    {r \in Requests : /\ r.address \in RouterAddresses
                      /\ r.booking_date = Some(LifeDay)
                      /\ r.booking_time \in {None, Some(T(8, 0))}}

ReadOnlyFails == {"none", "geocode", "store", "altStore"}

InitReadOnly ==
    /\ workingDays = ShippedWorkingDays
    /\ tzOffset = 0
    /\ \E env \in ReadOnlyEnvs :
          /\ pgBookings = env.pg
          /\ bookings = env.sqlite
          /\ cancelled = ArchiveOf(1, env.archived)
          /\ completed = ArchiveOf(2, env.archived)
          /\ pgCancelled = ArchiveOf(LifeDay * 10 + 4, env.archived)
          /\ pgCompleted = ArchiveOf(LifeDay * 10 + 5, env.archived)
    /\ nextId = 4
    /\ inflight = <<>>
    /\ geocodeCache = WarmCache
    /\ last = NoLast

\* A store after the validator's calls: the validator's only statement is the
\* SELECT of getBookingsByDate, and the routes below call nothing else.
NoStoreWrite_ConsumesRows ==
    /\ pgBookings' = <<>>
    /\ UNCHANGED <<bookings, cancelled, completed, pgCancelled, pgCompleted>>

NoStoreWrite ==
    UNCHANGED <<pgBookings, bookings, cancelled, completed, pgCancelled, pgCompleted>>

\* router.post('/validate-booking'): validateBooking, and inside it
\* suggestAlternateDate when the request is refused for distance or capacity.
ValidateOnly ==
    \E req \in ReadOnlyRequests, fail \in ReadOnlyFails :
        LET verdict == validateBooking(req, pgBookings, fail) IN
        /\ last' = Answer("validateBooking", req, fail,
                          IF verdict.threw THEN 500 ELSE 200, verdict)
        /\ NoStoreWrite
        /\ UNCHANGED <<workingDays, tzOffset, nextId, inflight, geocodeCache>>

\* router.post('/auto-schedule'): autoScheduleBooking.
AutoScheduleOnly ==
    \E req \in CacheAutoRequests, fail \in {"none", "geocode", "store"} :
        LET result == autoScheduleBooking(req, pgBookings, LifeDay, fail) IN
        /\ last' = AutoAnswer(req, LifeDay, fail,
                              IF result.scheduled THEN 200 ELSE 400, result)
        /\ NoStoreWrite
        /\ UNCHANGED <<workingDays, tzOffset, nextId, inflight, geocodeCache>>

\* router.get('/bookings/date/:date'): the rows of the sqlite store and
\* getDateStatistics, which reads the Postgres store; 500 when a read fails.
DateStatistics ==
    \E date \in ReqDates, fail \in {"none", "store"} :
        /\ last' = [op |-> "getDateStatistics", req |-> date, fail |-> fail,
                    status |-> IF fail = "store" THEN 500 ELSE 200,
                    data |-> IF fail = "store" THEN <<>>
                             ELSE getBookingsByDate(bookings, date),
                    stats |-> IF fail = "store" THEN None
                              ELSE Some(getDateStatistics(pgBookings, date))]
        /\ NoStoreWrite
        /\ UNCHANGED <<workingDays, tzOffset, nextId, inflight, geocodeCache>>

NextReadOnly == ValidateOnly \/ AutoScheduleOnly \/ DateStatistics

SpecReadOnly == InitReadOnly /\ [][NextReadOnly]_vars

-----------------------------------------------------------------------------
(* The distance oracle asked about two pairs of locations                  *)

\* Locations of the oracle's runs: every tenth of a mile up to MaxOraclePos
\* from the base, and the addresses of the requests.
MaxOraclePos == 12

OraclePositions == (0..MaxOraclePos) \cup {Position(a) : a \in Addresses}

OracleOrigins == {BasePosition, 3, Position("C")}

InitOracle ==
    /\ workingDays = ShippedWorkingDays
    /\ tzOffset = 0
    /\ pgBookings = <<>>
    /\ bookings = <<>>
    /\ nextId = 1
    /\ inflight = <<>>
    /\ geocodeCache = WarmCache
    /\ cancelled = <<>> /\ completed = <<>> /\ pgCancelled = <<>> /\ pgCompleted = <<>>
    /\ last = NoLast

\* mapsService.getDistanceAndTime(origin, destination) for two pairs.
OracleCall ==
    \E o1 \in OracleOrigins, o2 \in OracleOrigins,
       d1 \in OraclePositions, d2 \in OraclePositions :
        /\ last.op = "none"
        /\ last' = [op |-> "getDistanceAndTime",
                    origin1 |-> o1, destination1 |-> d1,
                    origin2 |-> o2, destination2 |-> d2,
                    first |-> getDistanceAndTime(o1, d1),
                    second |-> getDistanceAndTime(o2, d2)]
        /\ UNCHANGED archives
        /\ UNCHANGED <<workingDays, tzOffset, pgBookings, bookings, nextId, inflight,
                       geocodeCache>>

NextOracle == OracleCall

SpecOracle == InitOracle /\ [][NextOracle]_vars

-----------------------------------------------------------------------------
(* Removal requests in flight at once                                      *)

\* The sqlite store of these runs: two bookings on one date, ids 1 and 2.
MoveRows ==
    <<Row(1, LifeDay, T(9, 0), Position("A"), TRUE, None),
      Row(2, LifeDay, T(13, 0), Position("A"), FALSE, None)>>

\* The ids the requests name: the two bookings and an id no row has.
MoveIds == 1..3

MoveKinds == {"cancelBooking", "completeBooking"}

InitMoves ==
    /\ workingDays = ShippedWorkingDays
    /\ tzOffset = 0
    /\ pgBookings \in LifePgImages \ {<<>>}
    /\ bookings = MoveRows
    /\ nextId = 3
    /\ inflight = [c \in Clients |-> Idle]
    /\ geocodeCache = WarmCache
    /\ cancelled = <<>> /\ completed = <<>> /\ pgCancelled = <<>> /\ pgCompleted = <<>>
    /\ last = NoLast

\* Database.cancelBooking / completeBooking of database.js up to the INSERT:
\* `await this.getBookingById(id)`, 'Booking not found' (the route answers
\* 500) when there is no such row; else the request holds the row it read.
MoveRead(c) ==
    \E kind \in MoveKinds, id \in MoveIds :
        LET booking == getBookingById(bookings, id) IN
        /\ inflight[c] = Idle
        /\ IF booking = None
           THEN /\ last' = Removed(kind, "sqlite", id, 500, None)
                /\ UNCHANGED inflight
           ELSE /\ inflight' = [inflight EXCEPT ![c] =
                                    <<[kind |-> kind, id |-> id, booking |-> booking[1],
                                       inserted |-> FALSE]>>]
                /\ UNCHANGED last
        /\ UNCHANGED archives
        /\ UNCHANGED <<workingDays, tzOffset, pgBookings, bookings, nextId, geocodeCache>>

\* The INSERT INTO cancelled_bookings / completed_bookings of the row read.
MoveInsert(c) ==
    /\ inflight[c] # Idle
    /\ ~inflight[c][1].inserted
    /\ IF inflight[c][1].kind = "cancelBooking"
       THEN /\ cancelled' = Append(cancelled, ArchiveRow(inflight[c][1].booking))
            /\ UNCHANGED completed
       ELSE /\ completed' = Append(completed, ArchiveRow(inflight[c][1].booking))
            /\ UNCHANGED cancelled
    /\ inflight' = [inflight EXCEPT ![c] = <<[inflight[c][1] EXCEPT !.inserted = TRUE]>>]
    /\ UNCHANGED <<pgCancelled, pgCompleted, last>>
    /\ UNCHANGED <<workingDays, tzOffset, pgBookings, bookings, nextId, geocodeCache>>

\* The DELETE FROM bookings in the INSERT's callback, and the route's 200.
MoveDelete(c) ==
    /\ inflight[c] # Idle
    /\ inflight[c][1].inserted
    /\ bookings' = deleteBooking(bookings, inflight[c][1].id)
    /\ inflight' = [inflight EXCEPT ![c] = Idle]
    /\ last' = Removed(inflight[c][1].kind, "sqlite", inflight[c][1].id, 200,
                       Some(inflight[c][1].booking))
    /\ UNCHANGED archives
    /\ UNCHANGED <<workingDays, tzOffset, pgBookings, nextId, geocodeCache>>

\* The requests in flight on the sqlite store, the DELETE route, and the
\* Postgres store's methods, each of which is one statement or one
\* transaction that locks the row (SELECT ... FOR UPDATE).
NextMoves ==
    \/ \E c \in Clients : MoveRead(c) \/ MoveInsert(c) \/ MoveDelete(c)
    \/ DeleteBooking
    \/ PgDeleteBooking
    \/ PgCancelBooking
    \/ PgCompleteBooking

SpecMoves == InitMoves /\ [][NextMoves]_vars

-----------------------------------------------------------------------------
(* Bookings created and then changed by PUT /bookings/:id                  *)

\* Database.updateBooking: UPDATE bookings SET address, latitude, longitude,
\* booking_date, booking_time, ... WHERE id = ?; is_anchor and the distance
\* columns are not among the columns set.
updateBooking(store, id, booking) ==
    [i \in 1..Len(store) |->
        IF store[i].id = id
        THEN [store[i] EXCEPT !.booking_date = booking.booking_date,
                              !.booking_time = booking.booking_time,
                              !.pos = booking.pos]
        ELSE store[i]]

\* Requests of these runs: bookings at A on either date, no time given.
UpdateRequests ==
    {r \in RouterRequests : /\ r.address = "A"
                            /\ r.booking_date \in {Some(d) : d \in ReqDates}
                            /\ r.booking_time = None}

\* The bodies of the PUT requests: a date, a time and coordinates.
UpdateBodies ==
    [booking_date : ReqDates, booking_time : {T(9, 0)},
     pos : {Position("A"), Position("C")}]

\* router.post('/bookings')
CreateForUpdate ==
    \E req \in UpdateRequests :
        /\ nextId <= MaxCreated
        /\ PostBookingOf("postBooking", req, "none")

\* router.put('/bookings/:id'): database.updateBooking(id, req.body) on the
\* sqlite store with no validation, 200 whether or not a row had the id.
PutBooking ==
    \E id \in SqliteIds, body \in UpdateBodies :
        /\ bookings' = updateBooking(bookings, id, body)
        /\ last' = [op |-> "updateBooking", store |-> "sqlite", id |-> id,
                    status |-> 200, body |-> body]
        /\ UNCHANGED archives
        /\ UNCHANGED <<workingDays, tzOffset, pgBookings, nextId, inflight, geocodeCache>>

InitUpdate ==
    /\ workingDays = ShippedWorkingDays
    /\ tzOffset = 0
    /\ pgBookings = <<>>
    /\ bookings = <<>>
    /\ nextId = 1
    /\ inflight = <<>>
    /\ geocodeCache = WarmCache
    /\ cancelled = <<>> /\ completed = <<>> /\ pgCancelled = <<>> /\ pgCompleted = <<>>
    /\ last = NoLast

NextUpdate == CreateForUpdate \/ PutBooking

SpecUpdate == InitUpdate /\ [][NextUpdate]_vars

-----------------------------------------------------------------------------
(* What the last call was about                                            *)

Validated == last.op = "validateBooking"

\* The requested date is a string that parses.
HasDate == last.req.booking_date # None /\ last.req.booking_date # Some(InvalidDate)

ReqDay == last.req.booking_date[1]
ReqPos == Position(last.req.address)

\* The address resolved and its distance from the base was computed.
Resolved == last.fail \notin {"geocode", "lowell"}

InRadius == getDistanceAndTime(BasePosition, ReqPos).distance <= MAX_SERVICE_RADIUS_MILES * 10

\* The rows a store holds for a day.
RowsOn(store, day) == {i \in 1..Len(store) : store[i].booking_date = day}
CountOn(store, day) == Cardinality(RowsOn(store, day))
AnchorsOn(store, day) == {i \in RowsOn(store, day) : store[i].is_anchor}

\* The request passed the working-day, geocode and radius gates and the
\* bookings of its date were read.
ReachedCapacityGate ==
    /\ Validated /\ HasDate /\ isWorkingDayString(ReqDay)
    /\ Resolved /\ InRadius /\ last.fail # "store"

Posted == last.op = "postBooking"

\* The dates the requests name.
BookingDates == ReqDates

\* C1: after any sequence of booking creations through POST /bookings, run one
\* after the other, no date has more than one active booking flagged
\* is_anchor in the store the router writes.
C1_AtMostOneAnchorPerDate ==
    \A d \in BookingDates : Cardinality(AnchorsOn(bookings, d)) <= 1

\* C2: under creations run one after the other, a request for a date that
\* already holds MAX_BOOKINGS_PER_DAY active bookings is not persisted, so a
\* 201 answer never leaves its date with more than MAX_BOOKINGS_PER_DAY
\* active bookings.
C2_CapacityBoundary ==
    (Posted /\ last.status = 201) =>
        CountOn(bookings, ReqDay) <= MAX_BOOKINGS_PER_DAY

\* C3: two POST /bookings requests for the same empty date whose validation
\* and insert steps interleave do not both take the anchor role: the date
\* never has two persisted bookings with is_anchor = true.
C3_RaceAtMostOneAnchor ==
    \A d \in BookingDates :
        \A i, j \in AnchorsOn(bookings, d) : i = j

\* C4: under every interleaving of the validate and insert steps of two
\* POST /bookings requests, the number of active bookings persisted for a
\* date stays at most MAX_BOOKINGS_PER_DAY.
C4_RaceWithinCapacity ==
    \A d \in BookingDates : CountOn(bookings, d) <= MAX_BOOKINGS_PER_DAY

\* C5: on a working day, for an address that resolves inside the service
\* radius, a date without bookings accepts the request as the anchor
\* (anchor_booking) whatever time it asks for, with no anchor-proximity
\* check and no time-slot check.
C5_FirstOfDayIsAnchor ==
    (ReachedCapacityGate /\ CountOn(pgBookings, ReqDay) = 0) =>
        /\ last.verdict.valid
        /\ last.verdict.isAnchor
        /\ last.verdict.reason = "anchor_booking"
        /\ "checkDistanceFromAnchor" \notin Range(last.verdict.calls)
        /\ "checkTimeAvailability" \notin Range(last.verdict.calls)

\* An empty day accepted a request that names a time.
C5_Witness ==
    /\ ReachedCapacityGate /\ CountOn(pgBookings, ReqDay) = 0
    /\ last.req.booking_time # None
    /\ last.verdict.isAnchor

\* The requested day holds bookings below capacity, one of them flagged, and
\* the distance from that anchor was computed.
ReachedAnchorGate ==
    /\ ReachedCapacityGate
    /\ CountOn(pgBookings, ReqDay) \in 1..(MAX_BOOKINGS_PER_DAY - 1)
    /\ AnchorsOn(pgBookings, ReqDay) # {}
    /\ last.fail # "anchor"

\* Distance and duration between the request's location and the day's anchor.
FromAnchor ==
    getDistanceAndTime(FindAnchor(getBookingsByDate(pgBookings, ReqDay))[1].pos, ReqPos)

WithinAnchorLimits ==
    /\ FromAnchor.distance <= MAX_DISTANCE_FROM_ANCHOR_MILES * 10
    /\ FromAnchor.duration <= MAX_TRAVEL_TIME_FROM_ANCHOR_MINUTES

C7_OutOfRadiusNoAlternate ==
    (Validated /\ ~InRadius) =>
        /\ ~last.verdict.valid
        /\ "alternateDate" \notin last.verdict.fields
        /\ last.verdict.alternateDate = None

\* An out-of-radius address was rejected for a date that is full.
C7_Witness ==
    /\ Validated /\ HasDate /\ ~InRadius
    /\ CountOn(pgBookings, ReqDay) >= MAX_BOOKINGS_PER_DAY
    /\ last.verdict.reason = "outside_service_area"

GateOrder ==
    <<"geocodeAddress", "checkDistanceFromLowell", "getBookingsByDate",
      "checkDistanceFromAnchor", "checkTimeAvailability">>

\* The gates a run evaluated, in order.
GatesOf(verdict) == SelectSeq(verdict.calls, LAMBDA c : c # "suggestAlternateDate")

GatesBefore(why) ==
    CASE why = "non_working_day" -> 0
      [] why = "outside_service_area" -> 2
      [] why = "day_full" -> 3
      [] why = "too_far_from_anchor" -> 4
      [] why = "time_conflict" -> 5

PolicyRejections ==
    {"non_working_day", "outside_service_area", "day_full", "too_far_from_anchor",
     "time_conflict"}

\* C8: the gates run in the order working-day, geocode, service-radius,
\* capacity, anchor-proximity, time-slot, and a rejection is that of the first
\* failing gate, no later gate being evaluated: a non-working date is rejected
\* before any geocode or store call, an out-of-radius address before any store
\* read, and a full date with day_full whatever the distance from the anchor
\* and the requested time.
C8_FirstFailingGateWins ==
    (Validated /\ ~last.verdict.threw) =>
        /\ GatesOf(last.verdict) = SubSeq(GateOrder, 1, Len(GatesOf(last.verdict)))
        /\ last.verdict.reason \in PolicyRejections =>
              Len(GatesOf(last.verdict)) = GatesBefore(last.verdict.reason)
        /\ (HasDate /\ ~isWorkingDayString(ReqDay)) =>
              last.verdict.reason = "non_working_day" /\ last.verdict.calls = <<>>
        /\ (HasDate /\ isWorkingDayString(ReqDay) /\ Resolved /\ ~InRadius) =>
              /\ last.verdict.reason = "outside_service_area"
              /\ "getBookingsByDate" \notin Range(last.verdict.calls)
              /\ last.verdict.altReads = <<>>
        /\ (ReachedCapacityGate /\ CountOn(pgBookings, ReqDay) >= MAX_BOOKINGS_PER_DAY) =>
              last.verdict.reason = "day_full"

\* A full date rejected with day_full a request that is also too far from the
\* date's anchor and asks for a taken time.
C8_Witness ==
    /\ ReachedCapacityGate
    /\ CountOn(pgBookings, ReqDay) >= MAX_BOOKINGS_PER_DAY
    /\ AnchorsOn(pgBookings, ReqDay) # {}
    /\ ~WithinAnchorLimits
    /\ last.req.booking_time # None
    /\ \E i \in RowsOn(pgBookings, ReqDay) :
           pgBookings[i].booking_time = last.req.booking_time[1]
    /\ last.verdict.reason = "day_full"

\* C9: validateBooking searches for an alternate date exactly when it rejects
\* with day_full or too_far_from_anchor, and exactly those verdicts carry an
\* alternateDate field (a date with its reason, or null); no other rejection
\* and no acceptance invokes the search.
C9_AlternateOnlyOnFullOrTooFar ==
    Validated =>
        LET searched == "suggestAlternateDate" \in Range(last.verdict.calls)
            offers == last.verdict.reason \in {"day_full", "too_far_from_anchor"}
        IN  /\ searched <=> offers
            /\ "alternateDate" \in last.verdict.fields <=> offers
            /\ ~offers => last.verdict.alternateDate = None /\ last.verdict.altReads = <<>>
            /\ last.verdict.valid => ~searched

\* A too_far_from_anchor rejection carries a date.
C9_Witness ==
    /\ Validated
    /\ last.verdict.reason = "too_far_from_anchor"
    /\ "alternateDate" \in last.verdict.fields
    /\ last.verdict.alternateDate # None

\* C10: a date suggested by suggestAlternateDate is later than the requested
\* date, at most MAX_DAYS_TO_SUGGEST days later, and a working day.
C10_AlternateLaterAndWorking ==
    (Validated /\ last.verdict.alternateDate # None) =>
        LET suggested == last.verdict.alternateDate[1].date
        IN  /\ suggested > ReqDay
            /\ suggested <= ReqDay + MAX_DAYS_TO_SUGGEST
            /\ isWorkingDayString(suggested)

-----------------------------------------------------------------------------
(* The search for another date                                             *)

\* A rejection searched for another date and every store read of the search
\* succeeded.
Searched ==
    /\ Validated /\ "alternateDate" \in last.verdict.fields
    /\ last.fail # "altStore"

\* The dates of the search window: the MAX_DAYS_TO_SUGGEST days after the
\* requested date.
AltWindow == (ReqDay + 1)..(ReqDay + MAX_DAYS_TO_SUGGEST)

HasRoom(day) == CountOn(pgBookings, day) < MAX_BOOKINGS_PER_DAY

\* The day has a flagged anchor within both thresholds of the request's location.
AnchorFits(day) ==
    \E i \in AnchorsOn(pgBookings, day) :
        LET r == getDistanceAndTime(pgBookings[i].pos, ReqPos)
        IN  /\ r.distance <= MAX_DISTANCE_FROM_ANCHOR_MILES * 10
            /\ r.duration <= MAX_TRAVEL_TIME_FROM_ANCHOR_MINUTES

BestFit(day) == CountOn(pgBookings, day) = 0 \/ (HasRoom(day) /\ AnchorFits(day))

Earliest(days) == CHOOSE d \in days : \A e \in days : d <= e

\* C11: suggestAlternateDate returns the earliest working date of the window
\* that is empty or below capacity with a flagged anchor the location fits;
\* when the window has none, the earliest working date below capacity; and
\* null exactly when every working date of the window is at capacity.
C11_EarliestBestThenAnyThenNull ==
    Searched =>
        LET working == {d \in AltWindow : isWorkingDayString(d)}
            best == {d \in working : BestFit(d)}
            room == {d \in working : HasRoom(d)}
            alt == last.verdict.alternateDate
        IN  /\ best # {} => alt # None /\ alt[1].date = Earliest(best)
            /\ (best = {} /\ room # {}) => alt # None /\ alt[1].date = Earliest(room)
            /\ alt = None <=> room = {}

FitsFirstAnchor(day) ==
    LET anchorBooking == FindAnchor(getBookingsByDate(pgBookings, day))
    IN  /\ anchorBooking # None
        /\ LET r == getDistanceAndTime(anchorBooking[1].pos, ReqPos)
           IN  /\ r.distance <= MAX_DISTANCE_FROM_ANCHOR_MILES * 10
               /\ r.duration <= MAX_TRAVEL_TIME_FROM_ANCHOR_MINUTES

-----------------------------------------------------------------------------
(* The time-slot gate                                                      *)

\* The request passed every gate before the time-slot gate.
ReachedTimeGate == ReachedAnchorGate /\ WithinAnchorLimits

\* Some booking of the requested day is less than the minimum gap from the
\* requested time, in minutes since midnight.
TooClose ==
    /\ last.req.booking_time # None
    /\ \E i \in RowsOn(pgBookings, ReqDay) :
           Abs(TimeKey(last.req.booking_time[1]) - TimeKey(pgBookings[i].booking_time))
               < MinGapMinutes

\* C13: when the time-slot gate is reached, the request is rejected with
\* time_conflict exactly when it names a time less than 240 minutes from the
\* time of some booking of the date, the difference taken in minutes since
\* midnight without wraparound; a request that names no time passes.
C13_TimeConflictIffTooClose ==
    ReachedTimeGate =>
        /\ last.verdict.reason = "time_conflict" <=> TooClose
        /\ ~TooClose => last.verdict.valid /\ last.verdict.reason = "valid_booking"
        /\ last.req.booking_time = None => last.verdict.valid

\* 23:00 was accepted on a day booked at 01:00.
C13_Witness ==
    /\ ReachedTimeGate
    /\ last.req.booking_time = Some(T(23, 0))
    /\ \E i \in RowsOn(pgBookings, ReqDay) : pgBookings[i].booking_time = T(1, 0)
    /\ last.verdict.valid

FoundSlots == last.op = "findAvailableTimeSlots"

\* The slots the three rules give for booked times in ascending order.
ProposedSlots(bookedTimes) ==
    LET n == Len(bookedTimes)
        workStart == WORK_START_HOUR * 60
        workEnd == WORK_END_HOUR * 60
        before == IF bookedTimes[1] - workStart >= MinGapMinutes
                  THEN <<T((bookedTimes[1] - MinGapMinutes) \div 60, 0)>> ELSE <<>>
        RECURSIVE Mid(_)
        Mid(i) == IF i >= n THEN <<>>
                  ELSE (IF bookedTimes[i + 1] - bookedTimes[i] >= 2 * MinGapMinutes
                        THEN <<T(((bookedTimes[i] + bookedTimes[i + 1]) \div 2) \div 60, 0)>>
                        ELSE <<>>) \o Mid(i + 1)
        after == IF bookedTimes[n] + MinGapMinutes < workEnd
                 THEN <<T((bookedTimes[n] + MinGapMinutes) \div 60, 0)>> ELSE <<>>
    IN  before \o Mid(1) \o after

\* C14: findAvailableTimeSlots proposes one slot minGap before the first
\* booking when there is room after workStart, the midpoint of every gap
\* between consecutive bookings that is at least 2 * minGap wide, and one slot
\* minGap after the last booking when it fits before workEnd, each on a whole
\* hour; when there is none the result is the single sentinel
\* 'No available slots', never an empty list.
C14_SlotsBeforeMidpointsAfter ==
    FoundSlots =>
        LET rows == getBookingsByDate(pgBookings, SlotDay)
            bookedTimes == [i \in 1..Len(rows) |-> TimeKey(rows[i].booking_time)]
            proposed == ProposedSlots(bookedTimes)
        IN  /\ last.verdict.suggestedTimes # <<>>
            /\ proposed = <<>> => last.verdict.suggestedTimes = <<NoAvailableSlots>>
            /\ proposed # <<>> => last.verdict.suggestedTimes = proposed

-----------------------------------------------------------------------------
(* The hint of a non-working day                                           *)

\* C15: a requested date that is not a working day is rejected with
\* non_working_day and a nextWorkingDate that is the earliest working date
\* after the rejected date (found within the 14 advances of the scan).
C15_NextWorkingDateIsEarliest ==
    (Validated /\ HasDate /\ ~isWorkingDayString(ReqDay)) =>
        /\ last.verdict.reason = "non_working_day"
        /\ last.verdict.nextWorkingDate # None
        /\ LET next == last.verdict.nextWorkingDate[1]
           IN  /\ next > ReqDay
               /\ isWorkingDayString(next)
               /\ \A d \in (ReqDay + 1)..(next - 1) : ~isWorkingDayString(d)

-----------------------------------------------------------------------------
(* autoScheduleBooking                                                     *)

AutoScheduled == last.op = "autoSchedule"

\* C16: autoScheduleBooking for an address farther than
\* MAX_SERVICE_RADIUS_MILES from the base returns scheduled = false with the
\* reason outside_service_area, after resolving the address once
\* and without examining a date or reading the bookings of any date.
C16_OutOfRadiusIsTerminal ==
    (AutoScheduled /\ ~InRadius) =>
        /\ ~last.verdict.scheduled
        /\ ~last.verdict.valid
        /\ last.verdict.reason = "outside_service_area"
        /\ last.status = 400
        /\ last.verdict.calls = <<"geocodeAddress", "checkDistanceFromLowell">>
        /\ last.verdict.examined = <<>>
        /\ last.verdict.reads = <<>>
        /\ last.verdict.anchorChecks = <<>>

\* An address past the radius was auto-scheduled against a store that holds
\* bookings.
C16_Witness ==
    /\ AutoScheduled /\ ~InRadius
    /\ pgBookings # <<>>
    /\ last.verdict.reason = "outside_service_area"

\* The candidate dates of the last scan, in the order it took them.
Candidates == last.verdict.examined

\* The booking of a day the proximity of a new location is measured from:
\* the flagged booking earliest by time, or the booking earliest by time
\* when none is flagged.
ReferenceRow(day) ==
    LET pool == IF AnchorsOn(pgBookings, day) # {} THEN AnchorsOn(pgBookings, day)
                ELSE RowsOn(pgBookings, day)
    IN  CHOOSE i \in pool :
            \A j \in pool : TimeKey(pgBookings[i].booking_time) <= TimeKey(pgBookings[j].booking_time)

FitsReference(day) ==
    LET r == getDistanceAndTime(ReqPos, pgBookings[ReferenceRow(day)].pos)
    IN  /\ r.distance <= MAX_DISTANCE_FROM_ANCHOR_MILES * 10
        /\ r.duration <= MAX_TRAVEL_TIME_FROM_ANCHOR_MINUTES

\* The preferred slots no booking of the day starts at, by their place in
\* DEFAULT_TIME_SLOTS.
FreeSlots(day) ==
    {k \in 1..Len(DEFAULT_TIME_SLOTS) :
        \A i \in RowsOn(pgBookings, day) : pgBookings[i].booking_time # DEFAULT_TIME_SLOTS[k]}

\* The day is below capacity, is empty or holds a reference booking the
\* location fits, and has a free preferred slot.
Qualifies(day) ==
    /\ HasRoom(day)
    /\ CountOn(pgBookings, day) = 0 \/ FitsReference(day)
    /\ FreeSlots(day) # {}

\* The scan ran (the address is inside the radius) and no call it made failed.
ScanCompleted ==
    AutoScheduled /\ InRadius /\ last.verdict.reason # "auto_schedule_error"

PreferredStart ==
    LET asked == IF last.req.preferred_start_date # None
                 THEN last.req.preferred_start_date ELSE last.req.booking_date
    IN  IF asked = Some(InvalidDate) THEN None ELSE asked

\* The later of today and the preferred start date.
Baseline ==
    IF PreferredStart # None /\ PreferredStart[1] > last.today
    THEN PreferredStart[1] ELSE last.today

\* The baseline advanced to the next working day, itself included.
StartDay ==
    Earliest({d \in Baseline..(Baseline + 7) : isWorkingDayString(d)})

ScanWindow == StartDay..(StartDay + MAX_DAYS_TO_SUGGEST)

\* C18: when autoScheduleBooking returns scheduled = true, the returned date
\* is a working day not earlier than today and not earlier than the preferred
\* start date, and it is the earliest working date of the scan window that is
\* below capacity, is empty or passes the anchor-proximity check, and has a
\* free preferred slot.
C18_EarliestQualifyingWorkingDate ==
    (AutoScheduled /\ last.verdict.scheduled) =>
        LET date == last.verdict.booking_date[1] IN
        /\ isWorkingDayString(date)
        /\ date >= last.today
        /\ PreferredStart # None => date >= PreferredStart[1]
        /\ date \in ScanWindow
        /\ Qualifies(date)
        /\ \A d \in ScanWindow : (d < date /\ isWorkingDayString(d)) => ~Qualifies(d)

C20_AnchorIffEmptyElseFitsReference ==
    (AutoScheduled /\ last.verdict.scheduled) =>
        LET v == last.verdict
            date == v.booking_date[1]
        IN  /\ v.isAnchor <=> CountOn(pgBookings, date) = 0
            /\ v.isAnchor =>
                   /\ date \notin Range(v.anchorChecks)
                   /\ v.distanceFromAnchor = None
                   /\ v.travelTimeFromAnchor = None
                   /\ v.anchorAddress = None
            /\ ~v.isAnchor =>
                   /\ FitsReference(date)
                   /\ date \in Range(v.anchorChecks)
                   /\ v.anchorAddress = Some(pgBookings[ReferenceRow(date)].pos)
                   /\ v.distanceFromAnchor =
                          Some(getDistanceAndTime(ReqPos, pgBookings[ReferenceRow(date)].pos).distance)
            /\ \A d \in Range(v.anchorChecks) : ~FitsReference(d) => d # date

\* A date holding bookings none of which is flagged was returned, after a
\* date whose reference booking is too far was passed over.
C20_Witness ==
    /\ AutoScheduled /\ last.verdict.scheduled
    /\ ~last.verdict.isAnchor
    /\ AnchorsOn(pgBookings, last.verdict.booking_date[1]) = {}
    /\ CountOn(pgBookings, last.verdict.booking_date[1]) >= 2
    /\ \E d \in Range(last.verdict.anchorChecks) : ~FitsReference(d)

-----------------------------------------------------------------------------
(* Errors                                                                  *)

\* C24: validateBooking never throws: for every input, a missing or
\* unparseable booking_date, a failing geocode and a failing store read
\* included, it returns a verdict with valid, a reason and a message;
\* autoScheduleBooking always returns a verdict, auto_schedule_error when a
\* call it makes fails.
C24_NeverThrows ==
    /\ Validated =>
           /\ ~last.verdict.threw
           /\ {"valid", "reason", "message"} \subseteq last.verdict.fields
           /\ last.verdict.reason # ""
    /\ AutoScheduled =>
           \/ last.verdict.scheduled
           \/ last.verdict.reason \in
                  {"outside_service_area", "no_slot_available", "auto_schedule_error"}

\* The external call that fails in the last validateBooking run was made.
FailureMet ==
    /\ Validated
    /\ CASE last.fail = "geocode" -> "geocodeAddress" \in Range(last.verdict.calls)
         [] last.fail = "lowell" -> "checkDistanceFromLowell" \in Range(last.verdict.calls)
         [] last.fail = "store" -> "getBookingsByDate" \in Range(last.verdict.calls)
         [] last.fail = "anchor" -> "checkDistanceFromAnchor" \in Range(last.verdict.calls)
         [] last.fail = "altStore" -> "suggestAlternateDate" \in Range(last.verdict.calls)
         [] OTHER -> FALSE

\* No collaborator call appears twice in the run.
NoCallRepeated ==
    \A i, j \in 1..Len(last.verdict.calls) :
        last.verdict.calls[i] = last.verdict.calls[j] => i = j

-----------------------------------------------------------------------------
(* The geocode cache and repeated calls                                    *)

\* The last call repeated the call before it: the same operation, the same
\* request and the source failing at the same place, on the same store and
\* the same day.
Repeated == last.before # None /\ last.before[1].fail = last.fail

C30_CacheIsTransparent ==
    /\ last.op = "validateBooking" =>
           last.verdict = validateBookingCached(ColdCache, last.req, pgBookings,
                                                last.fail).verdict
    /\ last.op = "autoSchedule" =>
           last.verdict = autoScheduleBookingCached(ColdCache, last.req, pgBookings,
                                                    last.today, last.fail).verdict
    /\ \A e \in geocodeCache : e.location = Some(SourceLocation(e.key))

\* A request refused because the lookup of its address failed, then accepted
\* when the lookup succeeded.
C30_Witness ==
    /\ last.op = "validateBooking"
    /\ last.before # None
    /\ last.before[1].fail = "geocode"
    /\ last.before[1].verdict.reason = "validation_error"
    /\ last.fail = "none"
    /\ last.verdict.valid

-----------------------------------------------------------------------------
(* Confirming a suggestion                                                 *)

\* C22: the date and time autoScheduleBooking suggested, posted with the same
\* address to POST /bookings against the unchanged store, pass validateBooking
\* and the booking is persisted.
C22_SuggestionCanBeConfirmed ==
    last.op = "confirm" =>
        /\ last.status = 201
        /\ last.verdict.valid
        /\ \E i \in 1..Len(bookings) :
               /\ Some(bookings[i].booking_date) = last.req.booking_date
               /\ Some(bookings[i].booking_time) = last.req.booking_time

-----------------------------------------------------------------------------
(* Anchors of dates whose bookings are removed                             *)

\* The table a removal acted on.
StoreOf(which) == IF which = "pg" THEN pgBookings ELSE bookings

\* The last request removed (deleted, cancelled or completed) a booking that
\* was flagged anchor.
AnchorRemoved ==
    /\ last.op \in {"deleteBooking", "cancelBooking", "completeBooking"}
    /\ last.removed # None
    /\ last.removed[1].is_anchor

\* The bookings the removed booking leaves on its date.
LeftOnDate == getBookingsByDate(StoreOf(last.store), last.removed[1].booking_date)

\* The next request is a POST /bookings for the date the anchor was removed
\* from, and it passes the working-day, geocode, radius and capacity gates.
NextPassesGates ==
    /\ last'.op = "postBooking"
    /\ last'.req.booking_date = Some(last.removed[1].booking_date)
    /\ last'.verdict.reason \notin {"non_working_day", "validation_error",
                                     "outside_service_area", "capacity_full"}
    /\ ~last'.verdict.threw

\* C26: removing the anchor of a date that has other bookings promotes none
\* of them: the date is left with bookings and no flagged anchor, and a later
\* request for the date that passes the gates is accepted as no_anchor_found
\* with isAnchor = false and no distance measured from an anchor.
C26_RemovedAnchorIsNotReplaced ==
    [][/\ (AnchorRemoved' /\ Len(LeftOnDate') > 0) =>
            \A i \in 1..Len(LeftOnDate') : ~LeftOnDate'[i].is_anchor
       /\ (AnchorRemoved /\ Len(LeftOnDate) > 0 /\ NextPassesGates) =>
            /\ last'.verdict.valid
            /\ last'.verdict.reason = "no_anchor_found"
            /\ ~last'.verdict.isAnchor
            /\ last'.verdict.distanceFromAnchor = None
            /\ "checkDistanceFromAnchor" \notin Range(last'.verdict.calls)]_vars

\* C27: after the anchor of a date is deleted, the next booking created for
\* the date is persisted with is_anchor = true.
C27_NextBookingBecomesAnchor ==
    [][(/\ AnchorRemoved
        /\ last.op = "deleteBooking"
        /\ last'.op = "postBooking"
        /\ last'.status = 201
        /\ last'.req.booking_date = Some(last.removed[1].booking_date)) =>
            bookings'[Len(bookings')].is_anchor]_vars

\* C28: a booking flagged is_anchor is the earliest-created of the active
\* bookings of its date.
C28_AnchorIsEarliestCreated ==
    \A i, j \in 1..Len(bookings) :
        (bookings[i].is_anchor /\ bookings[j].booking_date = bookings[i].booking_date)
            => bookings[i].id <= bookings[j].id

\* C29: on a date with a flagged anchor every other active booking lies
\* within both limits of the anchor, and every active booking lies within the
\* service radius of the base.
C29_BookingsNearAnchorAndBase ==
    /\ \A i, j \in 1..Len(bookings) :
           (/\ i # j
            /\ bookings[i].is_anchor
            /\ bookings[j].booking_date = bookings[i].booking_date)
               => checkDistanceFromAnchor(bookings[j].pos, bookings[i].pos).valid
    /\ \A i \in 1..Len(bookings) : checkDistanceFromLowell(bookings[i].pos).valid

-----------------------------------------------------------------------------
(* The validator writes nothing                                            *)

ReadOnlyOps == {"validateBooking", "autoSchedule", "getDateStatistics"}

-----------------------------------------------------------------------------
(* The distance oracle                                                     *)

\* The straight-line separation of a pair, in tenths of a mile.
Separation(origin, destination) ==
    IF origin >= destination THEN origin - destination ELSE destination - origin

\* The reported distance is the tenth of a mile nearest to 1.25 times the
\* separation, the duration the least whole minute not under the driving
\* distance at 35 mph (3/14 of a minute per tenth of a straight-line mile).
ReportsOf(separation, result) ==
    /\ 4 * result.distance - 2 <= 5 * separation
    /\ 5 * separation < 4 * result.distance + 2
    /\ 14 * result.duration >= 3 * separation
    /\ 14 * (result.duration - 1) < 3 * separation

-----------------------------------------------------------------------------
(* Times of the stored bookings                                            *)

\* C32: after bookings created one after the other through POST /bookings,
\* any two active bookings of one date are at least 240 minutes apart.
C32_StoredBookingsFourHoursApart ==
    \A i, j \in 1..Len(bookings) :
        (i # j /\ bookings[i].booking_date = bookings[j].booking_date) =>
            Abs(TimeKey(bookings[i].booking_time) - TimeKey(bookings[j].booking_time))
                >= MinGapMinutes

-----------------------------------------------------------------------------
(* What POST /bookings persists                                            *)

\* The row the request stored carries the verdict's anchor flag, coordinates
\* and distances.
RowOfVerdict(row, verdict) ==
    /\ row.is_anchor = verdict.isAnchor
    /\ Some(row.pos) = verdict.geocode
    /\ Some(row.distance_from_lowell) = verdict.distanceFromLowell
    /\ Some(row.travel_time_from_lowell) = verdict.travelTimeFromLowell
    /\ row.distance_from_anchor = verdict.distanceFromAnchor
    /\ row.travel_time_from_anchor = verdict.travelTimeFromAnchor

\* C33: POST /bookings persists a booking only when validateBooking, run in
\* the same request, returned valid; on a rejection or an error verdict it
\* answers 400 and leaves the store as it was; the row it persists carries
\* exactly the verdict's is_anchor, coordinates and distances.
C33_PersistsOnlyTheAcceptedVerdict ==
    [][last'.op = "postBooking" =>
          IF bookings' # bookings
          THEN /\ last'.verdict.valid
               /\ ~last'.verdict.threw
               /\ Len(bookings') = Len(bookings) + 1
               /\ SubSeq(bookings', 1, Len(bookings)) = bookings
               /\ RowOfVerdict(bookings'[Len(bookings')], last'.verdict)
          ELSE (~last'.verdict.valid /\ ~last'.verdict.threw) => last'.status = 400]_vars

-----------------------------------------------------------------------------
(* Moving a booking to an archive table                                    *)

\* How many rows of an archive table record the booking id.
Archived(archive, id) ==
    Cardinality({i \in 1..Len(archive) : archive[i].original_booking_id = id})

Active(store, id) == getBookingById(store, id) # None

\* In the tables of one store: no booking is both active and archived; a move
\* that succeeded left its booking inactive and recorded once in its table;
\* a move that failed with 'Booking not found' changed no table.
AtomicMoves(which, store, toCancelled, toCompleted) ==
    /\ \A id \in MoveIds \cup PgIds :
           ~(Active(store', id)
             /\ Archived(toCancelled', id) + Archived(toCompleted', id) > 0)
    /\ (/\ last' # last
        /\ last'.op \in MoveKinds
        /\ last'.store = which
        /\ last'.removed # None) =>
            /\ ~Active(store', last'.id)
            /\ Archived(IF last'.op = "cancelBooking" THEN toCancelled' ELSE toCompleted',
                        last'.id) = 1
    /\ (/\ last' # last
        /\ last'.op \in MoveKinds
        /\ last'.store = which
        /\ last'.removed = None) =>
            /\ ~Active(store, last'.id)
            /\ UNCHANGED <<store, toCancelled, toCompleted>>

\* C34: cancelBooking and completeBooking are atomic moves, in the sqlite
\* store and in the Postgres store: an active booking ends up inactive and
\* recorded exactly once in the archive table, it is at no time in both, and
\* for an id that is not active the call fails and changes nothing.
C34_MovesAreAtomic ==
    [][/\ AtomicMoves("sqlite", bookings, cancelled, completed)
       /\ AtomicMoves("pg", pgBookings, pgCancelled, pgCompleted)]_vars

\* C35: under cancel, complete and delete requests for one booking id at the
\* same time, the booking is recorded at most once in cancelled_bookings and
\* completed_bookings together.
C35_AtMostOneArchiveRecord ==
    \A id \in MoveIds \cup PgIds :
        /\ Archived(cancelled, id) + Archived(completed, id) <= 1
        /\ Archived(pgCancelled, id) + Archived(pgCompleted, id) <= 1

-----------------------------------------------------------------------------
(* Updates                                                                 *)

\* Every date of the store has at most one booking flagged anchor and at
\* most MAX_BOOKINGS_PER_DAY bookings.
PerDateInvariants(store) ==
    \A d \in ReqDates :
        LET rows == getBookingsByDate(store, d) IN
        /\ Len(SelectSeq(rows, LAMBDA r : r.is_anchor)) <= 1
        /\ Len(rows) <= MAX_BOOKINGS_PER_DAY

\* C36: the per-date invariants survive updates: a PUT /bookings/:id that
\* changes a booking's date or coordinates leaves every date with at most
\* one flagged anchor and at most MAX_BOOKINGS_PER_DAY active bookings.
C36_UpdatesKeepPerDateInvariants ==
    [][(last'.op = "updateBooking" /\ PerDateInvariants(bookings))
           => PerDateInvariants(bookings')]_vars

-----------------------------------------------------------------------------
(* The times a time_conflict verdict suggests                              *)

\* C37: every time in the suggestedTimes of a time_conflict verdict, other
\* than the 'No available slots' sentinel, is free: at least 240 minutes from
\* every booking of the date and inside the working window, so that the same
\* request with that time passes the time-slot gate on the same bookings.
C37_SuggestedTimesAreFree ==
    (last.op = "validateBooking" /\ last.verdict.reason = "time_conflict") =>
        LET rows == getBookingsByDate(pgBookings, last.req.booking_date[1]) IN
        /\ last.verdict.suggestedTimes # <<>>
        /\ \A t \in Range(last.verdict.suggestedTimes) :
               t # NoAvailableSlots =>
                   /\ \A i \in 1..Len(rows) :
                          Abs(TimeKey(t) - TimeKey(rows[i].booking_time)) >= MinGapMinutes
                   /\ TimeKey(t) >= WORK_START_HOUR * 60
                   /\ TimeKey(t) < WORK_END_HOUR * 60
                   /\ checkTimeAvailability(rows, Some(t)).valid

-----------------------------------------------------------------------------
(* The store the router writes and the store the validator reads           *)

\* The number of bookings the validator's reads find on a date: the
\* bookingCount of getDateStatistics, the existingBookings of validateBooking.
SeenByValidator(store, date) == getDateStatistics(store, date).bookingCount

\* C38: a booking persisted by POST /bookings, and a booking removed by the
\* DELETE, cancel or complete route, is observed by the validator's next
\* read of its date: the count the validator sees changes by exactly one.
C38_RouterWritesWhatValidatorReads ==
    [][/\ (last'.op = "postBooking" /\ last'.status = 201) =>
            SeenByValidator(pgBookings', last'.req.booking_date[1])
                = SeenByValidator(pgBookings, last'.req.booking_date[1]) + 1
       /\ (/\ last'.op \in {"deleteBooking", "cancelBooking", "completeBooking"}
           /\ last'.store = "sqlite"
           /\ last'.removed # None) =>
            SeenByValidator(pgBookings', last'.removed[1].booking_date)
                = SeenByValidator(pgBookings, last'.removed[1].booking_date) - 1]_vars

-----------------------------------------------------------------------------
(* The suggested date against the dates the validator accepts              *)

\* The working dates of the search window on which validateBooking accepts the
\* request's address, with no requested time, against the same store.
AcceptableDates ==
    {d \in AltWindow :
        /\ isWorkingDayString(d)
        /\ validateBooking([address |-> last.req.address, booking_date |-> Some(d),
                            booking_time |-> None], pgBookings, "none").valid}

\* C39: suggestAlternateDate passes over no acceptable date: the date it
\* returns is the earliest working date of the window on which validateBooking
\* accepts the same location with no requested time against the same store,
\* a date that holds bookings but no flagged anchor included.
C39_SuggestsEarliestAcceptableDate ==
    (Searched /\ last.verdict.alternateDate # None) =>
        /\ AcceptableDates # {}
        /\ last.verdict.alternateDate[1].date = Earliest(AcceptableDates)

====
